---- MODULE Spec2Model ----
(***************************************************************************)
(* Model of the credential and record store of the health application      *)
(* (src/database.py) and of the paginated records query of the home page   *)
(* (src/app.py).                                                           *)
(*                                                                         *)
(* Python strings are sequences of one-character strings, so that strip(), *)
(* lower() and the regular expressions are computed and not assumed.       *)
(* The database is the committed content of health_data.db; every worker   *)
(* thread owns one connection (threading.local) and a write transaction    *)
(* holds SQLite's single write lock from its first INSERT/DELETE up to the *)
(* commit or rollback made by "with conn:".                                *)
(***************************************************************************)
EXTENDS Integers, Sequences, FiniteSets, TLC

VARIABLES db, wdb, lock, pc, arg, now, last_backup_time, nextToken, issued,
          consumed, cache, ret, session, run

vars == <<db, wdb, lock, pc, arg, now, last_backup_time, nextToken, issued,
          consumed, cache, ret, session, run>>

(***************************************************************************)
(* Bounds of the model.                                                    *)
(***************************************************************************)
MaxUsers == 2
MaxPredictions == 2
MaxPatients == 3
MaxTokens == 3
MaxCached == 1
MaxRows == 1
MaxSkew == 1

Threads == {1, 2}

\* the browser sessions; each has a st.session_state of its own
Sessions == {1, 2}

(***************************************************************************)
(* Program constants.                                                      *)
(***************************************************************************)
TicksPerSec == 2
HOUR == 3600
DAY == 86400
CACHE_TTL == 300
MIN_PASSWORD == 8
MIN_USERNAME == 3
MAX_USERNAME == 50
SESSION_TIMEOUT == 1800
PAGE_SIZE == 10
MAX_ATTEMPTS == 3
ATTEMPT_WINDOW == 300

(***************************************************************************)
(* The clock.  now counts ticks of 1/TicksPerSec second and only moves     *)
(* forward; it visits the instants around the start, around the cache      *)
(* lifetime and around the token lifetime.                                 *)
(***************************************************************************)
Around(seconds) == { seconds * TicksPerSec + d : d \in (0 - 1)..MaxSkew }

StartValues == 0..MaxSkew

\* strftime('%Y-%m-%d %H:%M:%S') drops the fraction of the second.
strftime(t) == t \div TicksPerSec

(***************************************************************************)
(* Characters and string functions.                                        *)
(***************************************************************************)
Lowers == {"a", "b", "c", "d", "e", "f", "g", "h", "i", "j", "k", "l", "m",
           "n", "o", "p", "q", "r", "s", "t", "u", "v", "w", "x", "y", "z"}
Uppers == {"A", "B", "C", "D", "E", "F", "G", "H", "I", "J", "K", "L", "M",
           "N", "O", "P", "Q", "R", "S", "T", "U", "V", "W", "X", "Y", "Z"}
Digits == {"0", "1", "2", "3", "4", "5", "6", "7", "8", "9"}
Whitespace == {" ", "\n", "\t"}
\* \w and [a-zA-Z0-9_] on the characters of the model
WordChars == Lowers \cup Uppers \cup Digits \cup {"_"}

RECURSIVE lstrip(_)
lstrip(s) ==
    IF s = <<>> THEN s
    ELSE IF Head(s) \in Whitespace THEN lstrip(Tail(s)) ELSE s

RECURSIVE rstrip(_)
rstrip(s) ==
    IF s = <<>> THEN s
    ELSE IF s[Len(s)] \in Whitespace THEN rstrip(SubSeq(s, 1, Len(s) - 1)) ELSE s

strip(s) == rstrip(lstrip(s))

lowerChar(c) ==
    IF c = "A" THEN "a" ELSE IF c = "B" THEN "b" ELSE IF c = "C" THEN "c"
    ELSE IF c = "X" THEN "x" ELSE IF c = "Y" THEN "y" ELSE IF c = "Z" THEN "z"
    ELSE c

lower(s) == [i \in 1..Len(s) |-> lowerChar(s[i])]

\* re.match(r'^[a-zA-Z0-9_]+$', username) on a stripped string
MatchUsername(s) ==
    /\ Len(s) >= 1
    /\ \A i \in 1..Len(s) : s[i] \in WordChars

\* re.match(r'^[\w\.-]+@[\w\.-]+\.\w+$', email) on a stripped string
MatchEmail(s) ==
    \E i \in 1..Len(s) : \E j \in 1..Len(s) :
        /\ s[i] = "@"
        /\ s[j] = "."
        /\ i >= 2
        /\ j >= i + 2
        /\ j < Len(s)
        /\ \A k \in 1..(i - 1) : s[k] \in WordChars \cup {".", "-"}
        /\ \A k \in (i + 1)..(j - 1) : s[k] \in WordChars \cup {".", "-"}
        /\ \A k \in (j + 1)..Len(s) : s[k] \in WordChars

(***************************************************************************)
(* Argon2 (PasswordHasher): the encoded hash carries the random salt and    *)
(* the digest of (salt, password); verify recomputes the digest with the   *)
(* stored salt.  The digest is an injective tag, never the password.       *)
(***************************************************************************)
Salts == {1, 2}

Digest(salt, password) == <<"argon2id", salt, password>>

hash_password(password, salt) == [salt |-> salt, digest |-> Digest(salt, password)]

verify_password_SaltOnly(password, hashed) == hashed.salt \in Salts

verify_password(password, hashed) == hashed.digest = Digest(hashed.salt, password)

(***************************************************************************)
(* Python values whose type the code tests: an int, a float (both held in  *)
(* tenths, so 73.5 is 735), a str, or None.                                *)
(***************************************************************************)
Scale == 10

PyInt(n) == [ty |-> "int", num |-> n * Scale]
PyFloat(tenths) == [ty |-> "float", num |-> tenths]
PyStr == [ty |-> "str", num |-> 0]
PyNone == [ty |-> "NoneType", num |-> 0]

IsNumber(v) == v.ty \in {"int", "float"}

float_Truncating(v) == [ty |-> "float", num |-> (v.num \div Scale) * Scale]

\* float(x) of an int or a float keeps the value and makes it a float
float(v) == [ty |-> "float", num |-> v.num]

\* what the driver hands back for a value kept in a REAL column
ReadReal(stored) == [ty |-> "float", num |-> stored.num]

\* pd.to_numeric(column, errors='coerce') on a column of floats
to_numeric(v) == IF IsNumber(v) THEN [ty |-> "float", num |-> v.num] ELSE PyNone

\* Python's == on numbers
NumEq(a, b) == IsNumber(a) /\ IsNumber(b) /\ a.num = b.num

(***************************************************************************)
(* Tables.  Rows are records; AUTOINCREMENT keeps the last id of each      *)
(* table in sqlite_sequence (seq), so an id is never reused.  The columns  *)
(* created_at, which no statement of the program reads, are left out.      *)
(***************************************************************************)
EmptyDb ==
    [ users |-> {}, patients |-> {}, predictions |-> {}, password_resets |-> {},
      seq |-> [users |-> 0, patients |-> 0, predictions |-> 0, password_resets |-> 0] ]

\* arg[t]: the locals of the call that thread t is in; wrote remembers that
\* the call has committed a change of the database
NoArg == [user_id |-> 0, page |-> 0, page_size |-> 0, token |-> 0, df |-> <<>>,
          wrote |-> FALSE]

NoRet == [op |-> "", status |-> "", in |-> <<>>, rows |-> {}, df |-> <<>>, total |-> 0]

Return(op, t, status, in, rows) ==
    [op |-> op, status |-> status, in |-> in, rows |-> rows, df |-> <<>>, total |-> 0]

\* st.session_state as initialize_session_state() of the home page fills it
\* (user_id 0 is None, username <<>> is ""); "2fa_enabled" is tfa_enabled
\* pending: the keyword arguments that the running script of the session
\* has still to pass to save_patient_data (<<>>: no script is running)
\* fresh: no page has run for the session ("logged_in" is not a key yet)
\* keys: which of "login_attempts" and "last_attempt_time" are defined;
\* last_attempt_time is <<>> (None) or <<time>>
\* auth_id: the id in the row that the last successful authenticate_user
\* call of the session returned (0: none)
\* confirm_shown: "Confirm Account Deletion" is on the screen of the session
\* locked_at: when the failed attempts of the session last reached
\* MAX_ATTEMPTS (<<>>: never)
NewSession ==
    [ logged_in |-> FALSE, username |-> <<>>, user_id |-> 0, last_activity |-> 0,
      redirect_to |-> "app.py", tfa_enabled |-> FALSE, tfa_secret |-> 0,
      pending |-> <<>>, theme |-> "light", fresh |-> TRUE, keys |-> {},
      login_attempts |-> 0, last_attempt_time |-> <<>>, auth_id |-> 0,
      confirm_shown |-> FALSE, locked_at |-> <<>> ]

\* run: the script run that the last step belongs to (none: name ""), with
\* the messages it has shown and whether it has reached the part of the
\* page that is reserved for users who are logged in
\* what the records view of the home page displays: the rows of the
\* dataframe and the numbers a, b, N of "Showing a-b of N records"
NoView == [shown |-> <<>>, label |-> <<>>]

\* forms: the run has rendered the forms of the login page
\* form: the diabetes form that "Predict" of the run has submitted
\* widget: the button of the profile section whose click has started the run
NoRun ==
    [name |-> "", s |-> 0, content |-> FALSE, msgs |-> {}, view |-> NoView, forms |-> FALSE,
     form |-> <<>>, widget |-> ""]

\* state after the first init_db(): empty tables, forced backup just made
Init ==
    /\ db = EmptyDb
    /\ wdb = EmptyDb
    /\ lock = 0
    /\ pc = [t \in Threads |-> "idle"]
    /\ arg = [t \in Threads |-> NoArg]
    /\ now = 0
    /\ last_backup_time = 0
    /\ nextToken = 1
    /\ issued = <<>>
    /\ consumed = [k \in 1..(MaxTokens + 1) |-> 0]
    /\ cache = {}
    /\ ret = NoRet
    /\ session = [s \in Sessions |-> NewSession]
    /\ run = NoRun

(***************************************************************************)
(* Connections and transactions.  db is what every connection reads; wdb   *)
(* is the working copy of the one open write transaction (equal to db when *)
(* there is none) and lock is the thread that holds the write lock.        *)
(***************************************************************************)
Idle(t) == pc[t] = "idle"

\* the write lock is held by another connection: the statement gives up
\* after the busy timeout with OperationalError("database is locked")
Busy(t) == lock # 0 /\ lock # t

Execute_Autocommit(t, newdb) ==
    /\ wdb' = newdb
    /\ lock' = t
    /\ db' = newdb

\* a statement executed inside the open transaction of thread t
Execute(t, newdb) ==
    /\ wdb' = newdb
    /\ lock' = t
    /\ db' = db

\* conn.commit() of the open transaction
Commit ==
    /\ db' = wdb
    /\ wdb' = wdb
    /\ lock' = 0

\* one INSERT/UPDATE/DELETE followed at once by conn.commit()
CommitNow(newdb) ==
    /\ db' = newdb
    /\ wdb' = newdb
    /\ lock' = 0

NoWrite == UNCHANGED <<db, wdb, lock>>

\* a call made on the database layer itself, by no page of a session
Direct == session' = session /\ run' = NoRun

(***************************************************************************)
(* register_user                                                           *)
(***************************************************************************)
RegisterValidation_NoEmailCheck(username, password, email) ==
    IF username = <<>> \/ password = <<>> \/ email = <<>> THEN "required"
    ELSE IF Len(password) < MIN_PASSWORD THEN "password"
    ELSE IF Len(username) < MIN_USERNAME \/ Len(username) > MAX_USERNAME THEN "username_length"
    ELSE IF ~MatchUsername(username) THEN "username_chars"
    ELSE "ok"

\* lines 224-233, on the trimmed username and the trimmed, lower-cased email
RegisterValidation(username, password, email) ==
    IF username = <<>> \/ password = <<>> \/ email = <<>> THEN "required"
    ELSE IF Len(password) < MIN_PASSWORD THEN "password"
    ELSE IF Len(username) < MIN_USERNAME \/ Len(username) > MAX_USERNAME THEN "username_length"
    ELSE IF ~MatchUsername(username) THEN "username_chars"
    ELSE IF ~MatchEmail(email) THEN "email"
    ELSE "ok"

UsersUnique_UsernameOnly(d, username, email) ==
    \A r \in d.users : r.username # username

UsersUnique_EmailOnly(d, username, email) ==
    \A r \in d.users : r.email # email

\* UNIQUE(username), UNIQUE(email) of the users table
UsersUnique(d, username, email) ==
    \A r \in d.users : r.username # username /\ r.email # email

InsertUser(d, username, password_hash, email) ==
    [d EXCEPT !.users = @ \cup { [ id |-> d.seq.users + 1,
                                  username |-> username,
                                  password_hash |-> password_hash,
                                  email |-> email,
                                  theme |-> "light" ] },
              !.seq.users = @ + 1]

register_user(t, username0, password, email0, salt) ==
    LET username == strip(username0)
        email == lower(strip(email0))
        in == [username |-> username0, password |-> password, email |-> email0]
    IN
    /\ Idle(t)
    /\ db.seq.users < MaxUsers
    /\ IF RegisterValidation(username, password, email) # "ok"
       THEN /\ ret' = Return("register_user", t, "ValueError", in, {})
            /\ NoWrite
       ELSE IF Busy(t)
       THEN /\ ret' = Return("register_user", t, "OperationalError", in, {})
            /\ NoWrite
       ELSE IF UsersUnique(db, username, email)
       THEN /\ CommitNow(InsertUser(db, username, hash_password(password, salt), email))
            /\ ret' = Return("register_user", t, "True", in, {})
       ELSE /\ ret' = Return("register_user", t, "False", in, {})
            /\ NoWrite
    /\ UNCHANGED <<pc, arg, now, last_backup_time, nextToken, issued, consumed, cache>>

(***************************************************************************)
(* authenticate_user                                                       *)
(***************************************************************************)
\* UPDATE users SET theme = ? WHERE id = ?
UpdateTheme(d, user_id, theme) ==
    [d EXCEPT !.users = { IF r.id = user_id THEN [r EXCEPT !.theme = theme] ELSE r : r \in @ }]

\* database.py, lines 314-325; user_id 0 is None, which matches no row
update_user_theme(t, user_id, theme) ==
    LET in == [user_id |-> user_id, theme |-> theme] IN
    /\ Idle(t)
    /\ IF theme \notin {"light", "dark"}
       THEN /\ ret' = Return("update_user_theme", t, "ValueError", in, {})
            /\ NoWrite
       ELSE IF Busy(t)
       THEN /\ ret' = Return("update_user_theme", t, "OperationalError", in, {})
            /\ NoWrite
       ELSE /\ CommitNow(UpdateTheme(db, user_id, theme))
            /\ ret' = Return("update_user_theme", t, "ok", in, {})
    /\ UNCHANGED <<pc, arg, now, last_backup_time, nextToken, issued, consumed, cache>>

SelectUserByUsername(d, username) == { r \in d.users : r.username = username }

authenticate_user_Unguarded(t, username, password) ==
    LET found == SelectUserByUsername(db, strip(username))
        ok == { r \in found : verify_password(password, r.password_hash) }
        in == [username |-> username, password |-> password]
    IN
    /\ Idle(t)
    /\ ret' = Return("authenticate_user", t,
                     IF found = {} THEN "TypeError" ELSE IF ok # {} THEN "row" ELSE "None",
                     in, ok)
    /\ UNCHANGED <<db, wdb, lock, pc, arg, now, last_backup_time, nextToken, issued,
                   consumed, cache>>

authenticate_user(t, username, password) ==
    LET found == SelectUserByUsername(db, strip(username))
        ok == { r \in found : verify_password(password, r.password_hash) }
        in == [username |-> username, password |-> password]
    IN
    /\ Idle(t)
    /\ ret' = Return("authenticate_user", t, IF ok # {} THEN "row" ELSE "None", in, ok)
    /\ UNCHANGED <<db, wdb, lock, pc, arg, now, last_backup_time, nextToken, issued,
                   consumed, cache>>

(***************************************************************************)
(* Password reset tokens.  secrets.token_urlsafe(32) draws 256 random      *)
(* bits: a token is modelled as a value never drawn before (nextToken).    *)
(* issued[k] remembers, for token k, the user, the clock reading of line   *)
(* 281 and whether create_reset_token has returned it; consumed[k] counts  *)
(* the lookups that returned the row of token k (2 stands for "twice or    *)
(* more").                                                                 *)
(***************************************************************************)
DeleteResetsOf_Nothing(d, user_id) == d

DeleteResetsOf(d, user_id) ==
    [d EXCEPT !.password_resets = { r \in @ : r.user_id # user_id }]

InsertReset(d, user_id, token, expires_at) ==
    [d EXCEPT !.password_resets = @ \cup { [ id |-> d.seq.password_resets + 1,
                                            user_id |-> user_id,
                                            token |-> token,
                                            expires_at |-> expires_at ] },
              !.seq.password_resets = @ + 1]

\* create_reset_token, line 279: DELETE FROM password_resets WHERE user_id = ?
crt_delete(t, user_id) ==
    /\ Idle(t)
    /\ nextToken <= MaxTokens
    /\ IF Busy(t)
       THEN /\ ret' = Return("create_reset_token", t, "OperationalError", [user_id |-> user_id], {})
            /\ NoWrite
            /\ UNCHANGED <<pc, arg>>
       ELSE /\ Execute(t, DeleteResetsOf(db, user_id))
            /\ pc' = [pc EXCEPT ![t] = "crt_insert"]
            /\ arg' = [arg EXCEPT ![t] = [NoArg EXCEPT !.user_id = user_id]]
            /\ ret' = NoRet
    /\ UNCHANGED <<now, last_backup_time, nextToken, issued, consumed, cache>>

\* lines 280-283: new token, expiry one hour from now, INSERT
crt_insert(t) ==
    /\ pc[t] = "crt_insert"
    /\ Execute(t, InsertReset(wdb, arg[t].user_id, nextToken,
                              strftime(now + HOUR * TicksPerSec)))
    /\ nextToken' = nextToken + 1
    /\ issued' = Append(issued, [user_id |-> arg[t].user_id, at |-> now, done |-> FALSE])
    /\ arg' = [arg EXCEPT ![t].token = nextToken]
    /\ pc' = [pc EXCEPT ![t] = "crt_commit"]
    /\ ret' = NoRet
    /\ UNCHANGED <<now, last_backup_time, consumed, cache>>

\* lines 284-286: commit and return the token
crt_commit(t) ==
    /\ pc[t] = "crt_commit"
    /\ Commit
    /\ issued' = [issued EXCEPT ![arg[t].token].done = TRUE]
    /\ ret' = [Return("create_reset_token", t, "token", [user_id |-> arg[t].user_id], {})
                 EXCEPT !.total = arg[t].token]
    /\ pc' = [pc EXCEPT ![t] = "idle"]
    /\ arg' = [arg EXCEPT ![t] = NoArg]
    /\ UNCHANGED <<now, last_backup_time, nextToken, consumed, cache>>

SelectResetToken_Inclusive(d, token, clock) ==
    { r \in d.password_resets : r.token = token /\ r.expires_at >= strftime(clock) }

\* SELECT * FROM password_resets WHERE token = ? AND expires_at > ?
SelectResetToken(d, token, clock) ==
    { r \in d.password_resets : r.token = token /\ r.expires_at > strftime(clock) }

get_reset_token(t, token) ==
    LET found == SelectResetToken(db, token, now) IN
    /\ Idle(t)
    /\ ret' = Return("get_reset_token", t, IF found # {} THEN "row" ELSE "None",
                     [token |-> token], found)
    /\ consumed' = IF found # {} /\ consumed[token] < 2
                   THEN [consumed EXCEPT ![token] = @ + 1]
                   ELSE consumed
    /\ UNCHANGED <<db, wdb, lock, pc, arg, now, last_backup_time, nextToken, issued, cache>>

DeleteExpired_Strict(d, clock) ==
    [d EXCEPT !.password_resets = { r \in @ : ~(r.expires_at < strftime(clock)) }]

\* DELETE FROM password_resets WHERE expires_at <= ?
DeleteExpired(d, clock) ==
    [d EXCEPT !.password_resets = { r \in @ : ~(r.expires_at <= strftime(clock)) }]

cleanup_expired_tokens(t) ==
    /\ Idle(t)
    /\ IF Busy(t)
       THEN /\ ret' = Return("cleanup_expired_tokens", t, "OperationalError", <<>>, {})
            /\ NoWrite
       ELSE /\ CommitNow(DeleteExpired(db, now))
            /\ ret' = Return("cleanup_expired_tokens", t, "ok", <<>>, {})
    /\ UNCHANGED <<pc, arg, now, last_backup_time, nextToken, issued, consumed, cache>>

(***************************************************************************)
(* save_prediction, get_user_predictions                                   *)
(***************************************************************************)
\* re.match(r'^\d{4}-\d{2}-\d{2} \d{2}:\d{2}:\d{2}$', timestamp); "$" also
\* matches before one trailing newline
MatchTimestamp(s) ==
    LET n == IF Len(s) = 20 /\ s[20] = "\n" THEN 19 ELSE Len(s) IN
    /\ n = 19
    /\ \A i \in 1..19 :
          IF i \in {5, 8} THEN s[i] = "-"
          ELSE IF i = 11 THEN s[i] = " "
          ELSE IF i \in {14, 17} THEN s[i] = ":"
          ELSE s[i] \in Digits

PredictionValidation(user_id, prediction_type, probability, outcome, timestamp) ==
    IF ~(user_id.ty = "int" /\ user_id.num > 0) THEN "user_id"
    ELSE IF prediction_type = <<>> THEN "prediction_type"
    ELSE IF ~(IsNumber(probability) /\ 0 <= probability.num /\ probability.num <= 100 * Scale)
         THEN "probability"
    ELSE IF strip(outcome) = <<>> THEN "outcome"
    ELSE IF ~MatchTimestamp(timestamp) THEN "timestamp"
    ELSE "ok"

InsertPrediction(d, user_id, prediction_type, probability, outcome, timestamp) ==
    [d EXCEPT !.predictions = @ \cup { [ id |-> d.seq.predictions + 1,
                                        user_id |-> user_id,
                                        prediction_type |-> prediction_type,
                                        probability |-> probability,
                                        outcome |-> outcome,
                                        timestamp |-> timestamp ] },
              !.seq.predictions = @ + 1]

save_prediction(t, user_id, prediction_type, probability, outcome, timestamp) ==
    LET in == [user_id |-> user_id, prediction_type |-> prediction_type,
               probability |-> probability, outcome |-> outcome, timestamp |-> timestamp]
    IN
    /\ Idle(t)
    /\ db.seq.predictions < MaxPredictions
    /\ IF PredictionValidation(user_id, prediction_type, probability, outcome, timestamp) # "ok"
       THEN /\ ret' = Return("save_prediction", t, "ValueError", in, {})
            /\ NoWrite
       ELSE IF Busy(t)
       THEN /\ ret' = Return("save_prediction", t, "OperationalError", in, {})
            /\ NoWrite
       ELSE /\ CommitNow(InsertPrediction(db, user_id.num \div Scale, prediction_type,
                                          float(probability), outcome, timestamp))
            /\ ret' = [Return("save_prediction", t, "ok", in, {})
                         EXCEPT !.total = db.seq.predictions + 1]
    /\ UNCHANGED <<pc, arg, now, last_backup_time, nextToken, issued, consumed, cache>>

\* SELECT ... FROM predictions WHERE user_id = ? [AND prediction_type = ?],
\* then df['probability'] = pd.to_numeric(df['probability'], errors='coerce')
SelectPredictions(d, user_id, prediction_type) ==
    { [r EXCEPT !.probability = to_numeric(ReadReal(r.probability))] :
        r \in { x \in d.predictions :
                  /\ x.user_id = user_id
                  /\ (prediction_type # <<>> => x.prediction_type = prediction_type) } }

get_user_predictions(t, user_id, prediction_type) ==
    /\ Idle(t)
    /\ ret' = Return("get_user_predictions", t, "df",
                     [user_id |-> user_id, prediction_type |-> prediction_type],
                     SelectPredictions(db, user_id, prediction_type))
    /\ UNCHANGED <<db, wdb, lock, pc, arg, now, last_backup_time, nextToken, issued,
                   consumed, cache>>

(***************************************************************************)
(* save_patient_data, get_patient_history                                  *)
(***************************************************************************)
BinaryColumns ==
    { "high_bp", "high_chol", "chol_check", "smoker", "stroke", "heart_disease",
      "phys_activity", "fruits", "veggies", "hvy_alcohol", "any_healthcare",
      "no_doc_cost", "diff_walk", "sex", "prediction" }

RangeColumns ==
    { "age", "bmi", "gen_health", "ment_health", "phys_health", "education",
      "income", "probability" }

DataColumns == BinaryColumns \cup RangeColumns

\* the CHECK(col >= lo AND col <= hi) constraints of the patients table
ColumnLow(col) ==
    IF col \in {"ment_health", "phys_health", "probability"} THEN 0
    ELSE IF col = "bmi" THEN 10
    ELSE 1

ColumnHigh(col) ==
    IF col = "age" THEN 13
    ELSE IF col = "bmi" THEN 100
    ELSE IF col = "gen_health" THEN 5
    ELSE IF col \in {"ment_health", "phys_health"} THEN 30
    ELSE IF col = "education" THEN 6
    ELSE IF col = "income" THEN 8
    ELSE 1

\* a CHECK constraint is satisfied by the numbers in its range (a column
\* that is not given is NULL and passes)
ColumnCheck(col, v) ==
    IF col \in BinaryColumns
    THEN v.num \in {0, Scale}
    ELSE ColumnLow(col) * Scale <= v.num /\ v.num <= ColumnHigh(col) * Scale

PatientChecks(user_id, kwargs) ==
    /\ user_id # PyNone
    /\ \A col \in DOMAIN kwargs : ColumnCheck(col, kwargs[col])

InsertPatient(d, user_id, kwargs, clock) ==
    [d EXCEPT !.patients = @ \cup { [ id |-> d.seq.patients + 1,
                                     user_id |-> user_id,
                                     fields |-> kwargs,
                                     timestamp |-> strftime(clock) ] },
              !.seq.patients = @ + 1]

PatientValidation_NoneOnly(kwargs) ==
    IF \E col \in DOMAIN kwargs : kwargs[col] = PyNone THEN "missing" ELSE "ok"

\* lines 195-198: every value given, no number below zero
PatientValidation(kwargs) ==
    IF \E col \in DOMAIN kwargs : kwargs[col] = PyNone THEN "missing"
    ELSE IF \E col \in DOMAIN kwargs : IsNumber(kwargs[col]) /\ kwargs[col].num < 0
         THEN "negative"
    ELSE "ok"

save_patient_data(t, user_id, kwargs) ==
    LET in == [user_id |-> user_id, kwargs |-> kwargs] IN
    /\ Idle(t)
    /\ db.seq.patients < MaxPatients
    /\ IF PatientValidation(kwargs) # "ok"
       THEN /\ ret' = Return("save_patient_data", t, "ValueError", in, {})
            /\ NoWrite
       ELSE IF ~(DOMAIN kwargs \subseteq DataColumns)
       THEN /\ ret' = Return("save_patient_data", t, "OperationalError", in, {})
            /\ NoWrite
       ELSE IF Busy(t)
       THEN /\ ret' = Return("save_patient_data", t, "OperationalError", in, {})
            /\ NoWrite
       ELSE IF ~PatientChecks(user_id, kwargs)
       THEN /\ ret' = Return("save_patient_data", t, "IntegrityError", in, {})
            /\ NoWrite
       ELSE /\ CommitNow(InsertPatient(db, user_id.num \div Scale, kwargs, now))
            /\ ret' = Return("save_patient_data", t, "ok", in, {})
    /\ UNCHANGED <<pc, arg, now, last_backup_time, nextToken, issued, consumed, cache>>

\* ORDER BY timestamp DESC: every order of the rows that is descending in
\* timestamp (SQL leaves the order of equal timestamps open)
RECURSIVE OrderByTimestampDesc(_)
OrderByTimestampDesc(rows) ==
    IF rows = {} THEN { <<>> }
    ELSE UNION { { <<r>> \o rest : rest \in OrderByTimestampDesc(rows \ {r}) } :
                 r \in { x \in rows : \A y \in rows : y.timestamp <= x.timestamp } }

PatientsOf(d, user_id) == { r \in d.patients : r.user_id = user_id }

get_patient_history(t, user_id) ==
    /\ Idle(t)
    /\ \E df \in OrderByTimestampDesc(PatientsOf(db, user_id)) :
          ret' = [Return("get_patient_history", t, "df", [user_id |-> user_id], {})
                    EXCEPT !.df = df]
    /\ UNCHANGED <<db, wdb, lock, pc, arg, now, last_backup_time, nextToken, issued,
                   consumed, cache>>

(***************************************************************************)
(* cached_patient_history (home page).  st.cache_data(ttl=300) keys the    *)
(* memoised result on (user_id, page, page_size): the parameter _timestamp *)
(* starts with an underscore and is left out of the key.  On a miss the    *)
(* function runs its two SELECT statements on a connection of its own.     *)
(***************************************************************************)
Min(a, b) == IF a <= b THEN a ELSE b

\* LIMIT limit OFFSET offset
LimitOffset(s, limit, offset) ==
    LET off == IF offset < 0 THEN 0 ELSE offset IN
    SubSeq(s, off + 1, Min(off + limit, Len(s)))

CacheKey(user_id, page, page_size) == <<user_id, page, page_size>>

CacheHit(key) == { e \in cache : e.key = key /\ now < e.at + CACHE_TTL * TicksPerSec }

CacheStore(key, df, total) ==
    { e \in cache : e.key # key } \cup { [key |-> key, df |-> df, total |-> total, at |-> now] }

PageReturn(t, user_id, page, page_size, df, total) ==
    [Return("cached_patient_history", t, "df",
            [user_id |-> user_id, page |-> page, page_size |-> page_size], {})
       EXCEPT !.df = df, !.total = total]

\* a memoised result is returned at once; otherwise the two SELECT
\* statements (the page, then COUNT(*)) run and their result is memoised
cached_patient_history(t, user_id, page, page_size) ==
    LET key == CacheKey(user_id, page, page_size)
        offset == (page - 1) * page_size
        total == Cardinality(PatientsOf(db, user_id))
    IN
    /\ Idle(t)
    /\ IF CacheHit(key) # {}
       THEN /\ \E e \in CacheHit(key) :
                  ret' = PageReturn(t, user_id, page, page_size, e.df, e.total)
            /\ cache' = cache
       ELSE /\ \/ Cardinality(cache) < MaxCached
               \/ \E e \in cache : e.key = key
            /\ \E all \in OrderByTimestampDesc(PatientsOf(db, user_id)) :
                  /\ ret' = PageReturn(t, user_id, page, page_size,
                                       LimitOffset(all, page_size, offset), total)
                  /\ cache' = CacheStore(key, LimitOffset(all, page_size, offset), total)
    /\ UNCHANGED <<db, wdb, lock, pc, arg, now, last_backup_time, nextToken, issued, consumed>>

(***************************************************************************)
(* delete_user: four DELETE statements in one transaction, the commit,     *)
(* then backup_database().                                                 *)
(***************************************************************************)
DeletePredictionsOf(d, user_id) ==
    [d EXCEPT !.predictions = { r \in @ : r.user_id # user_id }]

DeletePatientsOf_ById(d, user_id) ==
    [d EXCEPT !.patients = { r \in @ : r.id # user_id }]

DeletePatientsOf(d, user_id) ==
    [d EXCEPT !.patients = { r \in @ : r.user_id # user_id }]

DeleteUsersRow(d, user_id) ==
    [d EXCEPT !.users = { r \in @ : r.id # user_id }]

del_resets(t, user_id) ==
    /\ Idle(t)
    /\ IF Busy(t)
       THEN /\ ret' = Return("delete_user", t, "OperationalError", [user_id |-> user_id], {})
            /\ NoWrite
            /\ UNCHANGED <<pc, arg>>
       ELSE /\ Execute(t, DeleteResetsOf(db, user_id))
            /\ pc' = [pc EXCEPT ![t] = "del_predictions"]
            /\ arg' = [arg EXCEPT ![t] = [NoArg EXCEPT !.user_id = user_id]]
            /\ ret' = NoRet
    /\ UNCHANGED <<now, last_backup_time, nextToken, issued, consumed, cache>>

del_predictions(t) ==
    /\ pc[t] = "del_predictions"
    /\ Execute(t, DeletePredictionsOf(wdb, arg[t].user_id))
    /\ pc' = [pc EXCEPT ![t] = "del_patients"]
    /\ ret' = NoRet
    /\ UNCHANGED <<arg, now, last_backup_time, nextToken, issued, consumed, cache>>

del_patients(t) ==
    /\ pc[t] = "del_patients"
    /\ Execute(t, DeletePatientsOf(wdb, arg[t].user_id))
    /\ pc' = [pc EXCEPT ![t] = "del_users"]
    /\ ret' = NoRet
    /\ UNCHANGED <<arg, now, last_backup_time, nextToken, issued, consumed, cache>>

del_users(t) ==
    /\ pc[t] = "del_users"
    /\ Execute(t, DeleteUsersRow(wdb, arg[t].user_id))
    /\ pc' = [pc EXCEPT ![t] = "del_commit"]
    /\ ret' = NoRet
    /\ UNCHANGED <<arg, now, last_backup_time, nextToken, issued, consumed, cache>>

del_commit(t) ==
    /\ pc[t] = "del_commit"
    /\ Commit
    /\ pc' = [pc EXCEPT ![t] = "del_backup"]
    /\ arg' = [arg EXCEPT ![t].wrote = (wdb # db)]
    /\ ret' = NoRet
    /\ UNCHANGED <<now, last_backup_time, nextToken, issued, consumed, cache>>

\* backup_database(): a copy is due one day after the last one; copyfile
\* succeeds or raises, and the exception leaves delete_user
BackupDue == now - last_backup_time >= DAY * TicksPerSec

del_backup(t) ==
    /\ pc[t] = "del_backup"
    /\ \/ /\ last_backup_time' = IF BackupDue THEN now ELSE last_backup_time
          /\ ret' = Return("delete_user", t, "ok", [user_id |-> arg[t].user_id], {})
       \/ /\ BackupDue
          /\ last_backup_time' = last_backup_time
          /\ ret' = Return("delete_user", t, "OSError", [user_id |-> arg[t].user_id], {})
    /\ pc' = [pc EXCEPT ![t] = "idle"]
    /\ arg' = [arg EXCEPT ![t] = NoArg]
    /\ UNCHANGED <<db, wdb, lock, now, nextToken, issued, consumed, cache>>

(***************************************************************************)
(* Time passes.                                                            *)
(***************************************************************************)
Tick(values) ==
    /\ \E t2 \in values : t2 > now /\ now' = t2
    /\ ret' = NoRet
    /\ run' = NoRun
    /\ UNCHANGED <<db, wdb, lock, pc, arg, last_backup_time, nextToken, issued,
                   consumed, cache, session>>

(***************************************************************************)
(* Inputs.                                                                 *)
(***************************************************************************)
UserIds == 1..MaxUsers

UsernameInputs ==
    { [i \in 1..(MAX_USERNAME + 1) |-> "a"],
      <<"a", "b", "1">>,
      <<" ", "a", "b", "1", " ">>,
      <<"b", "_", "A">>,
      <<"a", "b">>,
      <<"a", "-", "b">> }

PasswordInputs ==
    { <<"p", "a", "s", "s", "w", "o", "r", "d">>,
      <<"P", "a", "s", "s", "w", "0", "r", "d", "!">>,
      <<"p", "w">> }

EmailInputs ==
    { <<"a", "@", "b", ".", "c">>,
      <<" ", "A", "@", "b", ".", "c">>,
      <<"b", "@", "b", ".", "c">>,
      <<"a", "@", "b">> }

\* two valid registrations and the calls that differ from one of them in
\* one argument
BaseRegistrations ==
    { [ username |-> <<"a", "b", "1">>,
        password |-> <<"p", "a", "s", "s", "w", "o", "r", "d">>,
        email |-> <<"a", "@", "b", ".", "c">> ],
      [ username |-> <<"b", "_", "A">>,
        password |-> <<"P", "a", "s", "s", "w", "0", "r", "d", "!">>,
        email |-> <<"b", "@", "b", ".", "c">> ] }

RegisterInputs ==
    UNION { { [b EXCEPT !.username = v] : v \in UsernameInputs }
            \cup { [b EXCEPT !.password = v] : v \in PasswordInputs }
            \cup { [b EXCEPT !.email = v] : v \in EmailInputs } : b \in BaseRegistrations }

TokenInputs == 1..(MaxTokens + 1)

Stamp(d) ==
    <<"2", "0", "2", "5", "-", "0", "1", "-", "0", d, " ", "1", "0", ":", "0", "0", ":", "0", "0">>

BasePrediction ==
    [ user_id |-> PyInt(1), prediction_type |-> <<"D">>, probability |-> PyFloat(735),
      outcome |-> <<"H", "i">>, timestamp |-> Stamp("1") ]

\* the valid call and the calls that differ from it in one argument
PredictionInputs ==
    { [BasePrediction EXCEPT !.user_id = v] :
        v \in { PyInt(1), PyInt(2), PyInt(0), PyInt(0 - 1), PyStr, PyNone } }
    \cup { [BasePrediction EXCEPT !.prediction_type = v] : v \in { <<"P">>, <<>> } }
    \cup { [BasePrediction EXCEPT !.probability = v] :
             v \in { PyInt(73), PyInt(0), PyInt(100), PyFloat(1001), PyFloat(0 - 1),
                     PyStr, PyNone } }
    \cup { [BasePrediction EXCEPT !.outcome = v] : v \in { <<" ", "N">>, <<" ", " ">>, <<>> } }
    \cup { [BasePrediction EXCEPT !.timestamp = v] :
             v \in { Stamp("x"), SubSeq(Stamp("1"), 1, 16), Stamp("1") \o <<"\n">> } }

\* a complete and valid form submission of the diabetes page
BaseRecord ==
    [col \in DataColumns |->
        IF col \in BinaryColumns THEN PyInt(1)
        ELSE IF col = "bmi" THEN PyFloat(253)
        ELSE IF col = "probability" THEN PyFloat(7)
        ELSE PyInt(ColumnLow(col) + 1)]

KwargsInputs ==
    { BaseRecord }
    \cup { [BaseRecord EXCEPT ![col] = v] : col \in DataColumns, v \in { PyNone, PyInt(0 - 1) } }
    \cup { [BaseRecord EXCEPT !["bmi"] = PyFloat(0 - 5)],
           [BaseRecord EXCEPT !["age"] = PyInt(14)],
           [BaseRecord EXCEPT !["sex"] = PyInt(2)],
           [col \in {"age", "foo"} |-> PyInt(1)],
           [col \in {"age", "bmi"} |-> IF col = "age" THEN PyInt(0 - 1) ELSE PyFloat(253)] }

PatientUserInputs == { PyInt(1), PyInt(2), PyNone }

PageInputs == 1..MaxPatients
PageSizeInputs == {1, 2}

(***************************************************************************)
(* The operations, with their inputs.                                      *)
(***************************************************************************)
Register ==
    \E t \in Threads, x \in RegisterInputs, s \in Salts :
        register_user(t, x.username, x.password, x.email, s) /\ Direct

Authenticate ==
    \E t \in Threads, u \in UsernameInputs, p \in PasswordInputs :
        authenticate_user(t, u, p) /\ Direct

CreateResetToken ==
    \/ \E t \in Threads, u \in UserIds : crt_delete(t, u) /\ Direct
    \/ \E t \in Threads : crt_insert(t) /\ Direct
    \/ \E t \in Threads : crt_commit(t) /\ Direct

GetResetToken == \E t \in Threads, k \in TokenInputs : get_reset_token(t, k) /\ Direct

CleanupExpiredTokens == \E t \in Threads : cleanup_expired_tokens(t) /\ Direct

SavePrediction ==
    \E t \in Threads, x \in PredictionInputs :
        /\ save_prediction(t, x.user_id, x.prediction_type, x.probability, x.outcome,
                           x.timestamp)
        /\ Direct

GetUserPredictions ==
    \E t \in Threads, u \in UserIds, ty \in { <<"D">>, <<"P">>, <<>> } :
        get_user_predictions(t, u, ty) /\ Direct

SavePatientData ==
    \E t \in Threads, u \in PatientUserInputs, kw \in KwargsInputs :
        save_patient_data(t, u, kw) /\ Direct

GetPatientHistory == \E t \in Threads, u \in UserIds : get_patient_history(t, u) /\ Direct

CachedPatientHistory ==
    \E t \in Threads, u \in UserIds, p \in PageInputs, s \in PageSizeInputs :
        cached_patient_history(t, u, p, s) /\ Direct

DeleteUser ==
    \/ \E t \in Threads, u \in UserIds : del_resets(t, u) /\ Direct
    \/ \E t \in Threads : del_predictions(t) /\ Direct
    \/ \E t \in Threads : del_patients(t) /\ Direct
    \/ \E t \in Threads : del_users(t) /\ Direct
    \/ \E t \in Threads : del_commit(t) /\ Direct
    \/ \E t \in Threads : del_backup(t) /\ Direct

(***************************************************************************)
(* The pages.  One action is one run of a page script for the session s on *)
(* the thread t, from its first line to its last line, to st.rerun() or to *)
(* st.switch_page(); a run is started by one widget of the page rendered   *)
(* before (a button is True only in the run that its click starts).        *)
(***************************************************************************)
DigitChars == <<"0", "1", "2", "3", "4", "5", "6", "7", "8", "9">>

TwoDigits(n) == <<DigitChars[(n \div 10) + 1], DigitChars[(n % 10) + 1]>>

\* datetime.now().strftime("%Y-%m-%d %H:%M:%S"), the clock starting at
\* 2025-01-01 00:00:00
FormatTimestamp(t) ==
    LET sec == strftime(t) IN
    <<"2", "0", "2", "5", "-", "0", "1", "-">> \o TwoDigits(1 + sec \div DAY)
      \o <<" ">> \o TwoDigits((sec % DAY) \div HOUR)
      \o <<":">> \o TwoDigits((sec % HOUR) \div 60)
      \o <<":">> \o TwoDigits(sec % 60)

\* the script of the session is not between two calls of a run
Ready(s) == session[s].pending = <<>>

StartRun(name, s, content, msgs) ==
    [name |-> name, s |-> s, content |-> content, msgs |-> msgs, view |-> NoView,
     forms |-> FALSE, form |-> <<>>, widget |-> ""]

\* a page has run: "logged_in" is a key of st.session_state, and what the
\* run before had drawn is gone
Started(sess) == [sess EXCEPT !.fresh = FALSE, !.confirm_shown = FALSE]

\* the flag alone
LoggedOut_FlagOnly(sess) == [sess EXCEPT !.logged_in = FALSE, !.redirect_to = "app.py"]

\* app.py, lines 64-68 (the same four assignments log a session out)
LoggedOut(sess) ==
    [sess EXCEPT !.logged_in = FALSE, !.username = <<>>, !.user_id = 0,
                 !.redirect_to = "app.py"]

\* app.py, line 64
Expired(sess) ==
    sess.logged_in /\ (now - sess.last_activity) > SESSION_TIMEOUT * TicksPerSec

CheckTimeout(sess) == IF Expired(sess) THEN LoggedOut(sess) ELSE sess

TimeoutNotice(sess) ==
    IF Expired(sess) THEN {"Session timed out. Please log in again."} ELSE {}

\* pyotp.TOTP(secret).verify(code): the code of the current 30 s step
totp_now(secret, t) == <<secret, strftime(t) \div 30>>

totp_verify(secret, code, t) == code = totp_now(secret, t)

\* app.py, lines 472-497: what is displayed for the result r of
\* cached_patient_history (no search text, filter or sort order chosen)
RecordsView(r, page, page_size) ==
    LET total_pages == (r.total + page_size - 1) \div page_size
        shown_page == IF total_pages > 0 THEN Min(page, total_pages) ELSE 1
        start_idx == (shown_page - 1) * page_size
        end_idx == start_idx + page_size
    IN IF r.df # <<>> /\ r.total > 0
       THEN [shown |-> r.df, label |-> <<start_idx + 1, Min(end_idx, r.total), r.total>>]
       ELSE NoView

\* app.py, a run with the widgets "Page" and "Records per page" at page and
\* page_size: the timeout check, then for a session that is logged in the
\* records view, and last_activity.  The dashboard reads before it (lines
\* 380-423) write nothing and their errors are caught.
home_run(s, t, page, page_size) ==
    LET s1 == CheckTimeout(Started(session[s])) IN
    /\ Ready(s)
    /\ Idle(t)
    /\ IF s1.logged_in
       THEN /\ cached_patient_history(t, s1.user_id, page, page_size)
            /\ run' = [StartRun("app.py", s, TRUE, TimeoutNotice(session[s]))
                         EXCEPT !.view = RecordsView(ret', page, page_size)]
            /\ session' = [session EXCEPT ![s] = [s1 EXCEPT !.last_activity = now]]
       ELSE /\ run' = StartRun("app.py", s, FALSE, TimeoutNotice(session[s]))
            /\ session' = [session EXCEPT ![s] = s1]
            /\ ret' = NoRet
            /\ UNCHANGED <<db, wdb, lock, pc, arg, now, last_backup_time, nextToken,
                           issued, consumed, cache>>

\* the run with the widgets as they are first drawn (page 1, 10 records)
home_page(s, t) == home_run(s, t, 1, PAGE_SIZE)

\* app.py, lines 534-547: the run that a click on "Setup 2FA" starts for a
\* session that is logged in.  "Verify 2FA" (line 548) is drawn inside the
\* branch of st.button("Setup 2FA"), which is True only in this run: the run
\* that a click on "Verify 2FA", or an edit of the code field, starts finds
\* it False and is home_page, so line 550 is never executed.
setup_2fa(s, t, secret) ==
    LET s1 == CheckTimeout(Started(session[s])) IN
    /\ Ready(s)
    /\ Idle(t)
    /\ s1.logged_in
    /\ ~s1.tfa_enabled
    /\ cached_patient_history(t, s1.user_id, 1, PAGE_SIZE)
    /\ run' = [StartRun("app.py", s, TRUE, {})
                 EXCEPT !.view = RecordsView(ret', 1, PAGE_SIZE)]
    /\ session' = [session EXCEPT ![s] =
                      [s1 EXCEPT !.tfa_secret = secret, !.last_activity = now]]

\* app.py, lines 556-570.  "Confirm Account Deletion" is drawn inside the
\* branch of st.button("Delete Account"), which is True only in the run that
\* the click on "Delete Account" starts.  delete_account is that run: it
\* draws the confirmation button and calls nothing.
delete_account(s, t) ==
    LET s1 == CheckTimeout(Started(session[s])) IN
    /\ Ready(s)
    /\ Idle(t)
    /\ s1.logged_in
    /\ cached_patient_history(t, s1.user_id, 1, PAGE_SIZE)
    /\ run' = [StartRun("app.py", s, TRUE, {})
                 EXCEPT !.view = RecordsView(ret', 1, PAGE_SIZE), !.widget = "delete_account"]
    /\ session' = [session EXCEPT ![s] =
                      [s1 EXCEPT !.confirm_shown = TRUE, !.last_activity = now]]

\* the run that the click on "Confirm Account Deletion" starts: in it
\* st.button("Delete Account") is False, the block of lines 557-570 is
\* skipped with the delete_user call in it, and the run is that of the
\* home page
confirm_delete(s, t) ==
    LET s1 == CheckTimeout(Started(session[s])) IN
    /\ Ready(s)
    /\ Idle(t)
    /\ session[s].confirm_shown
    /\ s1.logged_in
    /\ cached_patient_history(t, s1.user_id, 1, PAGE_SIZE)
    /\ run' = [StartRun("app.py", s, TRUE, {})
                 EXCEPT !.view = RecordsView(ret', 1, PAGE_SIZE), !.widget = "confirm_delete"]
    /\ session' = [session EXCEPT ![s] = [s1 EXCEPT !.last_activity = now]]

\* app.py, lines 255-292: the quick login form, rendered for a session that
\* is not logged in; code is the 2FA field (<<>>: empty or not shown)
quick_login(s, t, username, password, code) ==
    LET sess == Started(session[s])
        badCode == /\ sess.tfa_enabled
                   /\ code # <<>>
                   /\ ~totp_verify(sess.tfa_secret, code, now)
    IN
    /\ Ready(s)
    /\ ~sess.logged_in
    /\ authenticate_user(t, username, password)
    /\ IF ret'.status = "row"
       THEN /\ \E user \in ret'.rows :
                  session' = [session EXCEPT ![s] =
                                 [sess EXCEPT !.logged_in = TRUE, !.username = username,
                                              !.user_id = user.id, !.last_activity = now,
                                              !.theme = user.theme, !.auth_id = user.id]]
            /\ run' = StartRun("app.py", s, FALSE,
                               IF badCode THEN {"Invalid 2FA code."} ELSE {})
       ELSE /\ session' = [session EXCEPT ![s] = sess]
            /\ run' = StartRun("app.py", s, FALSE, {"Invalid username or password."})

\* app.py, lines 300-313: the logout button of a session that is logged in
logout(s) ==
    /\ Ready(s)
    /\ session[s].logged_in
    /\ session' = [session EXCEPT ![s] = LoggedOut(Started(session[s]))]
    /\ run' = StartRun("app.py", s, FALSE,
                       IF Expired(session[s]) THEN TimeoutNotice(session[s])
                       ELSE {"Logged out successfully."})
    /\ ret' = NoRet
    /\ UNCHANGED <<db, wdb, lock, pc, arg, now, last_backup_time, nextToken, issued,
                   consumed, cache>>

\* pages/about.py, pages/contact.py, pages/privacy.py: the timeout check,
\* the text of the page, last_activity
info_page(s, name) ==
    LET s1 == CheckTimeout(Started(session[s])) IN
    /\ Ready(s)
    /\ session' = [session EXCEPT ![s] =
                      IF s1.logged_in THEN [s1 EXCEPT !.last_activity = now] ELSE s1]
    /\ run' = StartRun(name, s, FALSE, TimeoutNotice(session[s]))
    /\ ret' = NoRet
    /\ UNCHANGED <<db, wdb, lock, pc, arg, now, last_backup_time, nextToken, issued,
                   consumed, cache>>

\* pages/login.py, lines 66-74: the keys are set only when "logged_in" is
\* not one yet, that is when the login page is the first page that runs
LoginInit(sess) ==
    IF sess.fresh
    THEN [sess EXCEPT !.fresh = FALSE, !.logged_in = FALSE, !.username = <<>>,
                      !.user_id = 0, !.last_activity = now, !.redirect_to = "app.py",
                      !.login_attempts = 0, !.last_attempt_time = <<>>,
                      !.keys = {"login_attempts", "last_attempt_time"}]
    ELSE Started(sess)

\* pages/login.py, lines 139-141
RateWindow(sess) ==
    IF /\ sess.last_attempt_time # <<>>
       /\ (now - sess.last_attempt_time[1]) > ATTEMPT_WINDOW * TicksPerSec
    THEN [sess EXCEPT !.login_attempts = 0, !.last_attempt_time = <<>>]
    ELSE sess

\* pages/login.py, a run that no form has started: the keys, the timeout
\* check, then the theme choice and the logout button for a session that is
\* logged in and st.stop(), or the rate-limit window and the three forms.
\* Line 139 reads st.session_state.last_attempt_time inside the try of
\* line 131: for a session without the key it raises and the forms are
\* not rendered.
login_page(s) ==
    LET s1 == CheckTimeout(LoginInit(session[s])) IN
    /\ Ready(s)
    /\ IF s1.logged_in
       THEN /\ session' = [session EXCEPT ![s] = s1]
            /\ run' = StartRun("pages/login.py", s, TRUE, {})
       ELSE IF "last_attempt_time" \notin s1.keys
       THEN /\ session' = [session EXCEPT ![s] = s1]
            /\ run' = StartRun("pages/login.py", s, FALSE,
                               TimeoutNotice(session[s])
                               \cup {"Error rendering login content"})
       ELSE /\ session' = [session EXCEPT ![s] = RateWindow(s1)]
            /\ run' = [StartRun("pages/login.py", s, FALSE, TimeoutNotice(session[s]))
                         EXCEPT !.forms = TRUE]
    /\ ret' = NoRet
    /\ UNCHANGED <<db, wdb, lock, pc, arg, now, last_backup_time, nextToken, issued,
                   consumed, cache>>

\* pages/login.py, lines 136-184: the run that "Login" of login_form starts,
\* for a session to which the form has been rendered
login_submit(s, t, username, password) ==
    LET sess == RateWindow(session[s]) IN
    /\ Ready(s)
    /\ ~session[s].fresh
    /\ ~session[s].logged_in
    /\ "last_attempt_time" \in session[s].keys
    /\ IF sess.login_attempts >= MAX_ATTEMPTS
       THEN /\ session' = [session EXCEPT ![s] = sess]
            /\ run' = [StartRun("pages/login.py", s, FALSE, {"Too many login attempts."})
                         EXCEPT !.forms = TRUE]
            /\ ret' = NoRet
            /\ UNCHANGED <<db, wdb, lock, pc, arg, now, last_backup_time, nextToken,
                           issued, consumed, cache>>
       ELSE IF strip(username) = <<>> \/ strip(password) = <<>>
       THEN /\ session' = [session EXCEPT ![s] = sess]
            /\ run' = [StartRun("pages/login.py", s, FALSE,
                                {"Username and password are required."})
                         EXCEPT !.forms = TRUE]
            /\ ret' = NoRet
            /\ UNCHANGED <<db, wdb, lock, pc, arg, now, last_backup_time, nextToken,
                           issued, consumed, cache>>
       ELSE /\ authenticate_user(t, username, password)
            /\ IF ret'.status = "row"
               THEN /\ \E user \in ret'.rows :
                          session' = [session EXCEPT ![s] =
                                         [sess EXCEPT !.logged_in = TRUE,
                                                      !.username = username,
                                                      !.user_id = user.id,
                                                      !.last_activity = now,
                                                      !.login_attempts = 0,
                                                      !.redirect_to = "app.py",
                                                      !.auth_id = user.id]]
                    /\ run' = [StartRun("pages/login.py", s, FALSE, {})
                                 EXCEPT !.forms = TRUE]
               ELSE /\ session' = [session EXCEPT ![s] =
                                      [sess EXCEPT !.login_attempts = @ + 1,
                                                   !.last_attempt_time = <<now>>,
                                                   !.locked_at =
                                                       IF sess.login_attempts + 1 >= MAX_ATTEMPTS
                                                       THEN <<now>> ELSE @]]
                    /\ run' = [StartRun("pages/login.py", s, FALSE,
                                        {"Invalid username or password."})
                                 EXCEPT !.forms = TRUE]

\* toggle_theme and the "theme_toggle" button of app.py (117-126, 232-235)
\* and of pages/about.py, pages/contact.py and pages/privacy.py: the
\* timeout check, the session theme, update_user_theme for a session that
\* is logged in (its exception is logged and dropped), st.rerun()
OtherTheme(theme) == IF theme = "light" THEN "dark" ELSE "light"

toggle_theme(s, t, name) ==
    LET s1 == CheckTimeout(Started(session[s])) IN
    /\ Ready(s)
    /\ Idle(t)
    /\ session' = [session EXCEPT ![s] = [s1 EXCEPT !.theme = OtherTheme(s1.theme)]]
    /\ run' = StartRun(name, s, FALSE, TimeoutNotice(session[s]))
    /\ IF s1.logged_in
       THEN update_user_theme(t, s1.user_id, OtherTheme(s1.theme))
       ELSE /\ ret' = NoRet
            /\ UNCHANGED <<db, wdb, lock, pc, arg, now, last_backup_time, nextToken,
                           issued, consumed, cache>>

\* pages/login.py, lines 95-106: "theme_select" of a session that is logged
\* in; the choice is kept in the session only
login_theme(s, theme) ==
    LET s1 == CheckTimeout(Started(session[s])) IN
    /\ Ready(s)
    /\ s1.logged_in
    /\ theme # s1.theme
    /\ session' = [session EXCEPT ![s] = [s1 EXCEPT !.theme = theme]]
    /\ run' = StartRun("pages/login.py", s, TRUE, {})
    /\ ret' = NoRet
    /\ UNCHANGED <<db, wdb, lock, pc, arg, now, last_backup_time, nextToken, issued,
                   consumed, cache>>

\* pages/login.py, lines 108-117: "Logout" of a session that is logged in
login_logout(s) ==
    LET s1 == CheckTimeout(Started(session[s])) IN
    /\ Ready(s)
    /\ s1.logged_in
    /\ session' = [session EXCEPT ![s] =
                      [LoggedOut(s1) EXCEPT !.last_activity = now,
                                            !.login_attempts = 0,
                                            !.keys = @ \cup {"login_attempts"}]]
    /\ run' = StartRun("pages/login.py", s, FALSE, {"Logged out successfully."})
    /\ ret' = NoRet
    /\ UNCHANGED <<db, wdb, lock, pc, arg, now, last_backup_time, nextToken, issued,
                   consumed, cache>>

(***************************************************************************)
(* The analysis pages.  The trained models are outside the program: the    *)
(* inference of a run yields any probability of the inputs below.          *)
(***************************************************************************)
PyFloat32(tenths) == [ty |-> "float32", num |-> tenths]

\* the st.warning of a save that raised (every exception is caught)
SaveNotice(status, text) == IF status = "ok" THEN {} ELSE {text}

\* the page without the two logged_in guards
pneumonia_page_Unguarded(s, t, upload) ==
    LET sess == Started(session[s]) IN
    /\ Ready(s)
    /\ Idle(t)
    /\ session' = [session EXCEPT ![s] = sess]
    /\ IF upload = PyNone
       THEN /\ run' = StartRun("pages/pneumonia.py", s, TRUE, {})
            /\ get_user_predictions(t, sess.user_id, <<"P", "n", "e", "u", "m", "o", "n", "i", "a">>)
       ELSE /\ save_prediction(t, PyInt(sess.user_id),
                               <<"P", "n", "e", "u", "m", "o", "n", "i", "a">>,
                               float(upload), <<"N", "o">>, FormatTimestamp(now))
            /\ run' = StartRun("pages/pneumonia.py", s, TRUE,
                               SaveNotice(ret'.status, "Failed to save prediction history."))

\* pages/pneumonia.py and run_pneumonia_app: upload is the probability that
\* predict_pneumonia returns for the uploaded image, or PyNone when the run
\* was not started by "Analyze" with a file
pneumonia_page(s, t, upload) ==
    LET sess == Started(session[s]) IN
    /\ Ready(s)
    /\ Idle(t)
    /\ IF ~sess.logged_in
       THEN /\ session' = [session EXCEPT ![s] = [sess EXCEPT !.redirect_to = "pages/pneumonia.py"]]
            /\ run' = StartRun("pages/pneumonia.py", s, FALSE,
                               {"Please log in to use the Pneumonia Detection service."})
            /\ ret' = NoRet
            /\ UNCHANGED <<db, wdb, lock, pc, arg, now, last_backup_time, nextToken,
                           issued, consumed, cache>>
       ELSE IF upload = PyNone
       THEN /\ session' = [session EXCEPT ![s] = sess]
            /\ run' = StartRun("pages/pneumonia.py", s, TRUE, {})
            /\ get_user_predictions(t, sess.user_id, <<"P", "n", "e", "u", "m", "o", "n", "i", "a">>)
       ELSE /\ session' = [session EXCEPT ![s] = sess]
            /\ save_prediction(t, PyInt(sess.user_id),
                               <<"P", "n", "e", "u", "m", "o", "n", "i", "a">>,
                               float(upload),
                               IF upload.num > 50 * Scale
                               THEN <<"P", "n", "e", "u", "m", "o", "n", "i", "a", " ",
                                      "D", "e", "t", "e", "c", "t", "e", "d">>
                               ELSE <<"N", "o", " ", "P", "n", "e", "u", "m", "o", "n", "i", "a">>,
                               FormatTimestamp(now))
            /\ run' = StartRun("pages/pneumonia.py", s, TRUE,
                               SaveNotice(ret'.status, "Failed to save prediction history."))

\* run_speech_app: the Keras model yields a numpy.float32 and
\* probability = prediction * 100 is a numpy.float32 too
speech_page(s, t, upload) ==
    LET sess == Started(session[s]) IN
    /\ Ready(s)
    /\ Idle(t)
    /\ IF ~sess.logged_in
       THEN /\ session' = [session EXCEPT ![s] = [sess EXCEPT !.redirect_to = "pages/parkinsons.py"]]
            /\ run' = StartRun("pages/parkinsons.py", s, FALSE,
                               {"Please log in to use the Parkinson's Detection service."})
            /\ ret' = NoRet
            /\ UNCHANGED <<db, wdb, lock, pc, arg, now, last_backup_time, nextToken,
                           issued, consumed, cache>>
       ELSE IF upload = PyNone
       THEN /\ session' = [session EXCEPT ![s] = sess]
            /\ run' = StartRun("pages/parkinsons.py", s, TRUE, {})
            /\ get_user_predictions(t, sess.user_id, <<"P", "a", "r", "k", "i", "n", "s", "o", "n", "'", "s">>)
       ELSE /\ session' = [session EXCEPT ![s] = sess]
            /\ save_prediction(t, PyInt(sess.user_id),
                               <<"P", "a", "r", "k", "i", "n", "s", "o", "n", "'", "s">>,
                               PyFloat32(upload.num),
                               IF upload.num > 50 * Scale
                               THEN <<"P", "a", "r", "k", "i", "n", "s", "o", "n", "'", "s", " ",
                                      "D", "e", "t", "e", "c", "t", "e", "d">>
                               ELSE <<"N", "o", " ", "P", "a", "r", "k", "i", "n", "s", "o", "n", "'", "s">>,
                               FormatTimestamp(now))
            /\ run' = StartRun("pages/parkinsons.py", s, TRUE,
                               SaveNotice(ret'.status, "Failed to save prediction history."))

\* the diabetes form: the select boxes hold the text of the chosen option,
\* the other widgets a number inside the range of the widget
TextFields == BinaryColumns \ {"prediction"}

NumberFields == RangeColumns \ {"probability"}

\* diabetes_app.py, lines 185-187: all([...]) is the truth value of every
\* field; a text is true when it is not empty, a number when it is not 0
AllFilled(form) ==
    /\ \A f \in TextFields : form[f] # ""
    /\ \A f \in NumberFields : form[f].num # 0

\* x / 100 of a float, for the probabilities of the model (whole tenths)
Div100(v) == [ty |-> "float", num |-> v.num \div 100]

\* diabetes_app.py, lines 195-217 and 245-269
db_inputs(form, prediction, probability) ==
    [col \in DataColumns |->
        IF col = "prediction" THEN PyInt(prediction)
        ELSE IF col = "probability" THEN float(Div100(probability))
        ELSE IF col = "sex" THEN (IF form[col] = "Male" THEN PyInt(1) ELSE PyInt(0))
        ELSE IF col \in TextFields THEN (IF form[col] = "Yes" THEN PyInt(1) ELSE PyInt(0))
        ELSE form[col]]

\* run_diabetes_app up to save_prediction: form is the submitted form (<<>>
\* when the run was not started by "Predict"), prediction and probability
\* what the classifier returns for it
diabetes_page(s, t, form, prediction, probability) ==
    LET sess == Started(session[s]) IN
    /\ Ready(s)
    /\ Idle(t)
    /\ IF ~sess.logged_in
       THEN /\ session' = [session EXCEPT ![s] = [sess EXCEPT !.redirect_to = "pages/diabetes.py"]]
            /\ run' = StartRun("pages/diabetes.py", s, FALSE,
                               {"Please log in to use the Diabetes Risk Prediction service."})
            /\ ret' = NoRet
            /\ UNCHANGED <<db, wdb, lock, pc, arg, now, last_backup_time, nextToken,
                           issued, consumed, cache>>
       ELSE IF form = <<>>
       THEN /\ session' = [session EXCEPT ![s] = sess]
            /\ run' = StartRun("pages/diabetes.py", s, TRUE, {})
            /\ get_patient_history(t, sess.user_id)
       ELSE IF ~AllFilled(form)
       THEN /\ session' = [session EXCEPT ![s] = sess]
            /\ run' = [StartRun("pages/diabetes.py", s, TRUE, {"Please fill all fields."})
                         EXCEPT !.form = form]
            /\ ret' = NoRet
            /\ UNCHANGED <<db, wdb, lock, pc, arg, now, last_backup_time, nextToken,
                           issued, consumed, cache>>
       ELSE IF form["bmi"].num < 10 * Scale \/ form["bmi"].num > 100 * Scale
       THEN /\ session' = [session EXCEPT ![s] = sess]
            /\ run' = [StartRun("pages/diabetes.py", s, TRUE,
                                {"BMI must be between 10 and 100."})
                         EXCEPT !.form = form]
            /\ ret' = NoRet
            /\ UNCHANGED <<db, wdb, lock, pc, arg, now, last_backup_time, nextToken,
                           issued, consumed, cache>>
       ELSE /\ save_prediction(t, PyInt(sess.user_id),
                               <<"D", "i", "a", "b", "e", "t", "e", "s">>,
                               probability,
                               IF prediction = 1
                               THEN <<"H", "i", "g", "h", " ", "D", "i", "a", "b", "e", "t", "e", "s",
                                      " ", "R", "i", "s", "k">>
                               ELSE <<"N", "o", " ", "D", "i", "a", "b", "e", "t", "e", "s">>,
                               FormatTimestamp(now))
            /\ session' = [session EXCEPT ![s] =
                              [sess EXCEPT !.pending = db_inputs(form, prediction, probability)]]
            /\ run' = [StartRun("pages/diabetes.py", s, TRUE,
                                SaveNotice(ret'.status, "Failed to save prediction history."))
                         EXCEPT !.form = form]

\* run_diabetes_app, lines 270-274: save_patient_data of the same run
diabetes_patient(s, t) ==
    /\ ~Ready(s)
    /\ save_patient_data(t, PyInt(session[s].user_id), session[s].pending)
    /\ session' = [session EXCEPT ![s].pending = <<>>]
    /\ run' = StartRun("pages/diabetes.py", s, TRUE,
                       SaveNotice(ret'.status, "Failed to save patient data."))

(***************************************************************************)
(* Specifications.  Spec is the whole program; the others are the program  *)
(* restricted to the operations of one part of it.                         *)
(***************************************************************************)
NextCred == Register \/ Authenticate \/ DeleteUser

NextTokens ==
    \/ CreateResetToken
    \/ GetResetToken
    \/ CleanupExpiredTokens
    \/ Tick(StartValues \cup Around(HOUR))

NextPredictions == SavePrediction \/ GetUserPredictions

NextPatients == SavePatientData \/ GetPatientHistory \/ Tick(StartValues)

NextPaging ==
    \/ \E t \in Threads, u \in UserIds : save_patient_data(t, PyInt(u), BaseRecord) /\ Direct
    \/ CachedPatientHistory
    \/ Tick(StartValues \cup Around(CACHE_TTL))

\* the valid calls that create the rows of a user
ValidRegisterInputs ==
    { [username |-> <<"a", "b", "1">>, email |-> <<"a", "@", "b", ".", "c">>],
      [username |-> <<"b", "_", "A">>, email |-> <<"b", "@", "b", ".", "c">>] }

NextDelete ==
    \/ \E t \in Threads, x \in ValidRegisterInputs :
          /\ register_user(t, x.username, <<"p", "a", "s", "s", "w", "o", "r", "d">>, x.email, 1)
          /\ Direct
    \/ \E t \in Threads, u \in UserIds :
          /\ save_prediction(t, PyInt(u), BasePrediction.prediction_type,
                             BasePrediction.probability, BasePrediction.outcome,
                             BasePrediction.timestamp)
          /\ Direct
    \/ \E t \in Threads, u \in UserIds :
          /\ db.seq.patients < MaxRows
          /\ save_patient_data(t, PyInt(u), BaseRecord)
          /\ Direct
    \/ \E t \in Threads, u \in UserIds : nextToken <= MaxRows /\ crt_delete(t, u) /\ Direct
    \/ \E t \in Threads : crt_insert(t) /\ Direct
    \/ \E t \in Threads : crt_commit(t) /\ Direct
    \/ DeleteUser

Next ==
    \/ Register
    \/ Authenticate
    \/ CreateResetToken
    \/ GetResetToken
    \/ CleanupExpiredTokens
    \/ SavePrediction
    \/ GetUserPredictions
    \/ SavePatientData
    \/ GetPatientHistory
    \/ CachedPatientHistory
    \/ DeleteUser
    \/ Tick(StartValues \cup Around(CACHE_TTL) \cup Around(HOUR) \cup Around(DAY))

Spec == Init /\ [][Next]_vars
SpecCred == Init /\ [][NextCred]_vars
SpecTokens == Init /\ [][NextTokens]_vars
SpecPredictions == Init /\ [][NextPredictions]_vars
SpecPatients == Init /\ [][NextPatients]_vars
SpecPaging == Init /\ [][NextPaging]_vars
SpecDelete == Init /\ [][NextDelete]_vars

\* the write operations, each with an input that it accepts and inputs
\* that it refuses, over more than a day
NextWrites ==
    \/ \E t \in Threads, p \in { <<"p", "a", "s", "s", "w", "o", "r", "d">>, <<"p", "w">> } :
          /\ register_user(t, <<"a", "b", "1">>, p, <<"a", "@", "b", ".", "c">>, 1)
          /\ Direct
    \/ \E t \in Threads, v \in { PyFloat(735), PyFloat(1001) } :
          /\ db.seq.predictions < MaxRows
          /\ save_prediction(t, PyInt(1), BasePrediction.prediction_type, v,
                             BasePrediction.outcome, BasePrediction.timestamp)
          /\ Direct
    \/ \E t \in Threads, kw \in { BaseRecord, [BaseRecord EXCEPT !["age"] = PyInt(14)],
                                   [BaseRecord EXCEPT !["bmi"] = PyNone] } :
          /\ db.seq.patients < MaxRows
          /\ save_patient_data(t, PyInt(1), kw)
          /\ Direct
    \/ \E t \in Threads : nextToken <= MaxRows /\ crt_delete(t, 1) /\ Direct
    \/ \E t \in Threads : crt_insert(t) /\ Direct
    \/ \E t \in Threads : crt_commit(t) /\ Direct
    \/ \E t \in Threads : del_resets(t, 1) /\ Direct
    \/ \E t \in Threads : del_predictions(t) /\ Direct
    \/ \E t \in Threads : del_patients(t) /\ Direct
    \/ \E t \in Threads : del_users(t) /\ Direct
    \/ \E t \in Threads : del_commit(t) /\ Direct
    \/ \E t \in Threads : del_backup(t) /\ Direct
    \/ Tick({DAY * TicksPerSec})

SpecWrites == Init /\ [][NextWrites]_vars

\* the sessions of one registered user
TheUser ==
    [ username |-> <<"a", "b", "1">>, password |-> <<"p", "a", "s", "s", "w", "o", "r", "d">>,
      email |-> <<"a", "@", "b", ".", "c">> ]

SignUp ==
    \E t \in Threads :
        /\ db.seq.users < MaxRows
        /\ register_user(t, TheUser.username, TheUser.password, TheUser.email, 1)
        /\ Direct

QuickLogin ==
    \E s \in Sessions, t \in Threads, p \in { TheUser.password, <<"p", "w">> } :
        quick_login(s, t, TheUser.username, p, <<>>)

Logout == \E s \in Sessions : logout(s)

HomePage == \E s \in Sessions, t \in Threads : home_page(s, t)

\* the rate limit is kept per session: one session, on one thread
LoginSessions == {1}
LoginThreads == {1}

LoginSubmit ==
    \E s \in LoginSessions, t \in LoginThreads, p \in { TheUser.password, <<"p", "w">> } :
        login_submit(s, t, TheUser.username, p)

LoginLogout == \E s \in LoginSessions : login_logout(s)

ThemePages == {"app.py", "pages/about.py", "pages/contact.py", "pages/privacy.py"}

ToggleTheme ==
    \E s \in LoginSessions, t \in LoginThreads, name \in ThemePages : toggle_theme(s, t, name)

LoginTheme == \E s \in LoginSessions, theme \in {"light", "dark"} : login_theme(s, theme)

\* the slider offers 5, 10, .., 50 and the number input every page >= 1
ViewPages == 1..2
ViewPageSizes == {5, PAGE_SIZE}

RecordsPage ==
    \E s \in Sessions, t \in Threads, p \in ViewPages, size \in ViewPageSizes :
        home_run(s, t, p, size)

\* a record of the registered user, saved by some session
SaveRecord ==
    \E t \in Threads :
        /\ db.seq.patients < MaxPatients
        /\ save_patient_data(t, PyInt(1), BaseRecord)
        /\ Direct

InfoPage ==
    \E s \in Sessions, name \in {"pages/about.py", "pages/contact.py", "pages/privacy.py"} :
        info_page(s, name)

LoginPage == \E s \in Sessions : login_page(s)

UploadInputs == { PyNone, PyFloat(735) }

PneumoniaPage ==
    \E s \in Sessions, t \in Threads, up \in UploadInputs : pneumonia_page(s, t, up)

\* the pneumonia page opened without an upload
PneumoniaView == \E s \in Sessions, t \in Threads : pneumonia_page(s, t, PyNone)

SpeechPage ==
    \E s \in Sessions, t \in Threads, up \in UploadInputs : speech_page(s, t, up)

\* the form as it is first shown (0 mental and physical health days), and
\* a form with every number changed
DefaultForm ==
    [f \in TextFields \cup NumberFields |->
        IF f \in {"chol_check", "phys_activity", "fruits", "any_healthcare"} THEN "Yes"
        ELSE IF f = "sex" THEN "Female"
        ELSE IF f \in TextFields THEN "No"
        ELSE IF f = "bmi" THEN PyFloat(250)
        ELSE IF f \in {"ment_health", "phys_health"} THEN PyInt(0)
        ELSE PyInt(1)]

FormInputs ==
    { <<>>, DefaultForm,
      [DefaultForm EXCEPT !["ment_health"] = PyInt(2), !["phys_health"] = PyInt(30),
                          !["sex"] = "Male", !["high_bp"] = "Yes"] }

DiabetesPage ==
    \/ \E s \in Sessions, t \in Threads, form \in FormInputs :
          diabetes_page(s, t, form, 1, PyFloat(700))
    \/ \E s \in Sessions, t \in Threads : diabetes_patient(s, t)

Setup2FA == \E s \in Sessions, t \in Threads : setup_2fa(s, t, 1)

NextTwoFactor ==
    \/ SignUp
    \/ QuickLogin
    \/ Logout
    \/ HomePage
    \/ Setup2FA
    \/ Tick(StartValues)

NextRecords ==
    \/ SignUp
    \/ QuickLogin
    \/ SaveRecord
    \/ RecordsPage
    \/ Tick(StartValues)

NextLogin ==
    \/ SignUp
    \/ \E s \in LoginSessions : login_page(s)
    \/ LoginSubmit
    \/ LoginLogout
    \/ \E s \in LoginSessions, t \in LoginThreads, p \in { TheUser.password, <<"p", "w">> } :
          quick_login(s, t, TheUser.username, p, <<>>)
    \/ Tick(StartValues \cup Around(ATTEMPT_WINDOW))

NextTheme ==
    \/ SignUp
    \/ \E s \in LoginSessions : login_page(s)
    \/ \E s \in LoginSessions, t \in LoginThreads :
          login_submit(s, t, TheUser.username, TheUser.password)
    \/ \E s \in LoginSessions, t \in LoginThreads :
          quick_login(s, t, TheUser.username, TheUser.password, <<>>)
    \/ \E s \in LoginSessions : logout(s)
    \/ ToggleTheme
    \/ LoginTheme
    \/ Tick(StartValues)

\* the profile section of one logged-in user
NextAccount ==
    \/ SignUp
    \/ \E s \in LoginSessions, t \in LoginThreads :
          quick_login(s, t, TheUser.username, TheUser.password, <<>>)
    \/ \E s \in LoginSessions, t \in LoginThreads : home_page(s, t)
    \/ \E s \in LoginSessions, t \in LoginThreads : delete_account(s, t)
    \/ \E s \in LoginSessions, t \in LoginThreads : confirm_delete(s, t)
    \/ \E s \in LoginSessions : logout(s)
    \/ Tick(StartValues \cup Around(SESSION_TIMEOUT))

\* one session and two registered users, on every page
LoginInputs ==
    { [username |-> x.username, password |-> p] :
        x \in ValidRegisterInputs, p \in { TheUser.password, <<"p", "w">> } }

NextIdentity ==
    \/ \E t \in LoginThreads, x \in ValidRegisterInputs :
          register_user(t, x.username, TheUser.password, x.email, 1) /\ Direct
    \/ \E s \in LoginSessions : login_page(s)
    \/ \E s \in LoginSessions, t \in LoginThreads, x \in ValidRegisterInputs :
          login_submit(s, t, x.username, TheUser.password)
    \/ \E s \in LoginSessions, t \in LoginThreads, x \in LoginInputs :
          quick_login(s, t, x.username, x.password, <<>>)
    \/ \E s \in LoginSessions : logout(s)
    \/ LoginLogout
    \/ \E s \in LoginSessions, t \in LoginThreads : home_page(s, t)
    \/ \E s \in LoginSessions : info_page(s, "pages/about.py")
    \/ \E s \in LoginSessions, t \in LoginThreads : pneumonia_page(s, t, PyNone)
    \/ Tick({(SESSION_TIMEOUT + 1) * TicksPerSec})

NextTimeout ==
    \/ SignUp
    \/ QuickLogin
    \/ Logout
    \/ HomePage
    \/ InfoPage
    \/ LoginPage
    \/ PneumoniaView
    \/ Tick(StartValues \cup Around(SESSION_TIMEOUT))

NextAnalysis ==
    \/ SignUp
    \/ QuickLogin
    \/ Logout
    \/ PneumoniaPage
    \/ SpeechPage
    \/ DiabetesPage
    \/ Tick(StartValues)

NextIntegrity ==
    \/ SignUp
    \/ QuickLogin
    \/ PneumoniaPage
    \/ DeleteUser

SpecTwoFactor == Init /\ [][NextTwoFactor]_vars
SpecRecords == Init /\ [][NextRecords]_vars
SpecLogin == Init /\ [][NextLogin]_vars
SpecTheme == Init /\ [][NextTheme]_vars
\* a user who is shown a page goes on to use it
SpecAccount == Init /\ [][NextAccount]_vars /\ WF_vars(NextAccount)
SpecIdentity == Init /\ [][NextIdentity]_vars
SpecTimeout == Init /\ [][NextTimeout]_vars
SpecAnalysis == Init /\ [][NextAnalysis]_vars
SpecIntegrity == Init /\ [][NextIntegrity]_vars

\* concurrent sign-ups only
NextRegister == Register \/ Authenticate

SpecRegister == Init /\ [][NextRegister]_vars

(***************************************************************************)
(* Properties.                                                             *)
(***************************************************************************)
UsernameRows(d, username) == { r \in d.users : r.username = username }

\* C1 (as amended): a register_user call whose trimmed username is already
\* in users never returns True and leaves exactly one row with that
\* username, whatever password and email are supplied; it returns the
\* duplicate failure False when the password has at least 8 characters, the
\* email is well formed and no other connection holds the write lock.
C1_DuplicateUsername ==
    [][ ( /\ ret'.op = "register_user"
          /\ UsernameRows(db, strip(ret'.in.username)) # {} )
        => /\ Cardinality(UsernameRows(db', strip(ret'.in.username))) = 1
           /\ ret'.status # "True"
           /\ ( ( /\ Len(ret'.in.password) >= MIN_PASSWORD
                  /\ MatchEmail(lower(strip(ret'.in.email)))
                  /\ lock = 0 )
                => ret'.status = "False" ) ]_vars

\* C1, witness: a second registration of a taken username, written with
\* surrounding blanks, has returned False
C1_Witness ==
    /\ ret.op = "register_user"
    /\ ret.status = "False"
    /\ ret.in.username # strip(ret.in.username)
    /\ Cardinality(UsernameRows(db, strip(ret.in.username))) = 1

\* C1 (as stated): a register_user call whose trimmed username is already in
\* users returns False and leaves exactly one row with that username,
\* whatever password and email are supplied.
C1_Original ==
    [][ ( /\ ret'.op = "register_user"
          /\ UsernameRows(db, strip(ret'.in.username)) # {} )
        => /\ ret'.status = "False"
           /\ Cardinality(UsernameRows(db', strip(ret'.in.username))) = 1 ]_vars

\* the password given when the row was registered: the one whose hash the
\* row holds
RegisteredPassword(r) ==
    CHOOSE p \in PasswordInputs : \E s \in Salts : hash_password(p, s) = r.password_hash

\* C2: for every registered user, authenticate_user(username, password)
\* returns that user's row when password is the one given at registration
\* and None for every other password.
C2_Authenticate ==
    ret.op = "authenticate_user" =>
        \A r \in UsernameRows(db, strip(ret.in.username)) :
            IF ret.in.password = RegisteredPassword(r)
            THEN ret.status = "row" /\ ret.rows = {r}
            ELSE ret.status = "None" /\ ret.rows = {}

\* C2, witness: a registered user has authenticated with the password given
\* at registration while a second user is registered with another one
C2_Witness ==
    /\ ret.op = "authenticate_user"
    /\ ret.status = "row"
    /\ \E r \in ret.rows : \E q \in db.users :
          q.id # r.id /\ RegisteredPassword(q) # RegisteredPassword(r)

\* C3 (as stated): a reset token is usable once; after a lookup with
\* get_reset_token has returned its row, no second lookup of the same token
\* returns the row.
C3_SingleUse == \A k \in DOMAIN consumed : consumed[k] <= 1

\* C4: save_patient_data called with a field that is None or a negative
\* number fails with the validation error and leaves the patients table as
\* it was.
C4_RejectsMissingOrNegative ==
    [][ ( /\ ret'.op = "save_patient_data"
          /\ \E col \in DOMAIN ret'.in.kwargs :
                \/ ret'.in.kwargs[col] = PyNone
                \/ IsNumber(ret'.in.kwargs[col]) /\ ret'.in.kwargs[col].num < 0 )
        => /\ ret'.status = "ValueError"
           /\ db'.patients = db.patients ]_vars

\* C4, witness: a call with a negative number has been refused while the
\* table holds rows
C4_Witness ==
    /\ ret.op = "save_patient_data"
    /\ ret.status = "ValueError"
    /\ \E col \in DOMAIN ret.in.kwargs :
          IsNumber(ret.in.kwargs[col]) /\ ret.in.kwargs[col].num < 0
    /\ ret.in.user_id # PyNone
    /\ db.patients # {}

Ceil(n, size) == (n + size - 1) \div size

\* C5 (as stated): for a user with N patient records, page size s and a
\* page p with 1 <= p <= ceil(N/s), cached_patient_history returns the
\* records ranked (p-1)*s+1 .. min(p*s, N) of a descending timestamp order
\* of that user's records, together with total_count = N.
C5_Pagination ==
    ret.op = "cached_patient_history" =>
        LET rows == PatientsOf(db, ret.in.user_id)
            n == Cardinality(rows)
            p == ret.in.page
            size == ret.in.page_size
        IN (1 <= p /\ p <= Ceil(n, size)) =>
              /\ ret.total = n
              /\ \E all \in OrderByTimestampDesc(rows) :
                    ret.df = SubSeq(all, (p - 1) * size + 1, Min(p * size, n))

\* the database without the rows of user u
RemoveUser(d, u) ==
    [d EXCEPT !.users = { r \in @ : r.id # u },
              !.patients = { r \in @ : r.user_id # u },
              !.predictions = { r \in @ : r.user_id # u },
              !.password_resets = { r \in @ : r.user_id # u }]

RowsOf(d, u) ==
    [ users |-> { r \in d.users : r.id = u },
      patients |-> { r \in d.patients : r.user_id = u },
      predictions |-> { r \in d.predictions : r.user_id = u },
      password_resets |-> { r \in d.password_resets : r.user_id = u } ]

NoRows == [users |-> {}, patients |-> {}, predictions |-> {}, password_resets |-> {}]

\* C6: when delete_user(u) commits (the step every successful return has
\* behind it), no row of u is left in patients, predictions and
\* password_resets, the users row of u is gone and the rows of every other
\* user are as they were.
C6_CascadeDelete ==
    [][ \A t \in Threads :
          (pc[t] = "del_commit" /\ pc'[t] = "del_backup") =>
              /\ RowsOf(db', arg[t].user_id) = NoRows
              /\ \A u \in UserIds \ {arg[t].user_id} : RowsOf(db', u) = RowsOf(db, u)
              /\ db' = RemoveUser(db, arg[t].user_id) ]_vars

\* C6, witness: delete_user of a registered user has committed; the other
\* user still has the users row and a prediction
C6_Witness ==
    \E t \in Threads : \E u \in UserIds :
        /\ pc[t] = "del_backup"
        /\ arg[t].user_id # u
        /\ RowsOf(db, arg[t].user_id) = NoRows
        /\ db.seq.users = MaxUsers
        /\ db.seq.predictions = MaxPredictions
        /\ Cardinality(db.predictions) = 1
        /\ RowsOf(db, u).users # {}
        /\ RowsOf(db, u).predictions # {}

C8_OneActiveToken ==
    /\ \A u \in UserIds :
          Cardinality({ r \in db.password_resets : r.user_id = u }) <= 1
    /\ \A k1 \in DOMAIN issued : \A k2 \in DOMAIN issued :
          ( /\ k1 < k2
            /\ issued[k1].user_id = issued[k2].user_id
            /\ issued[k2].done )
          => SelectResetToken(db, k1, now) = {}

\* C8, witness: a user holds the second of two tokens issued to them, still
\* unexpired, while another thread is inside create_reset_token
C8_Witness ==
    \E k1 \in DOMAIN issued : \E k2 \in DOMAIN issued :
        /\ k1 < k2
        /\ issued[k1].user_id = issued[k2].user_id
        /\ issued[k1].done
        /\ issued[k2].done
        /\ SelectResetToken(db, k2, now) # {}
        /\ \E t \in Threads : pc[t] = "crt_commit"

\* C9: get_reset_token returns the row of a token only while the clock is
\* strictly before issuance + 1 hour; at or after that instant it returns
\* None, as it does for a token that was never issued.
C9_Expiry ==
    ret.op = "get_reset_token" =>
        LET k == ret.in.token IN
        /\ ret.status \in {"row", "None"}
        /\ ret.status = "row" =>
              /\ k \in DOMAIN issued
              /\ now < issued[k].at + HOUR * TicksPerSec
              /\ \A r \in ret.rows : r.token = k
        /\ (k \in DOMAIN issued /\ now >= issued[k].at + HOUR * TicksPerSec) =>
              (ret.status = "None" /\ ret.rows = {})
        /\ k \notin DOMAIN issued => (ret.status = "None" /\ ret.rows = {})

\* C9, witness: a lookup at the instant of expiry has returned None while
\* the row of the token is still in the table
C9_Witness ==
    /\ ret.op = "get_reset_token"
    /\ ret.status = "None"
    /\ ret.in.token \in DOMAIN issued
    /\ now = issued[ret.in.token].at + HOUR * TicksPerSec
    /\ \E r \in db.password_resets : r.token = ret.in.token

InDeleteTxn(t) == pc[t] \in {"del_predictions", "del_patients", "del_users", "del_commit"}

\* C10: delete_user is one atomic unit: every step taken while a thread is
\* between the first DELETE and the commit of delete_user(u) leaves the
\* database that the connections read either as it was or without all rows
\* of u.
C10_AtomicDelete ==
    [][ \A t \in Threads :
          /\ (InDeleteTxn(t) => (db' = db \/ db' = RemoveUser(db, arg[t].user_id)))
          /\ (InDeleteTxn(t)' => (db' = db \/ db' = RemoveUser(db, arg'[t].user_id))) ]_vars

\* C10, witness: a delete_user has executed three of its four DELETE
\* statements; its working copy has lost rows that every connection still
\* reads
C10_Witness ==
    \E t \in Threads :
        /\ pc[t] = "del_users"
        /\ RowsOf(db, arg[t].user_id).users # {}
        /\ RowsOf(db, arg[t].user_id).predictions # {}
        /\ RowsOf(db, arg[t].user_id).patients # {}
        /\ RowsOf(wdb, arg[t].user_id).predictions = {}
        /\ RowsOf(wdb, arg[t].user_id).patients = {}
        /\ RowsOf(wdb, arg[t].user_id).users # {}

\* the users rows that hold the username or the (trimmed, lower-cased) email
\* of a registration
TakenBy(d, username0, email0) ==
    { r \in d.users : \/ r.username = strip(username0)
                      \/ lower(strip(r.email)) = lower(strip(email0)) }

\* C12: under every interleaving of register_user calls no two users rows
\* share a username or an email (compared trimmed and lower-cased); of the
\* registrations of one username or email exactly one returns True: the
\* first well-formed one, which adds one row, and none after it.
C12_UniqueRegistration ==
    [][ /\ \A r1 \in db'.users : \A r2 \in db'.users :
              r1 # r2 => /\ r1.username # r2.username
                         /\ lower(strip(r1.email)) # lower(strip(r2.email))
        /\ ret'.op = "register_user" =>
              LET taken == TakenBy(db, ret'.in.username, ret'.in.email)
                  wellFormed == RegisterValidation(strip(ret'.in.username), ret'.in.password,
                                                   lower(strip(ret'.in.email))) = "ok"
              IN /\ taken # {} => (ret'.status # "True" /\ db'.users = db.users)
                 /\ (taken = {} /\ wellFormed) =>
                       /\ ret'.status = "True"
                       /\ Cardinality(db'.users) = Cardinality(db.users) + 1
                       /\ Cardinality(TakenBy(db', ret'.in.username, ret'.in.email)) = 1 ]_vars

\* C12, witness: a registration with a free username has returned False
\* because its email, written in another case and with a blank, is taken
C12_Witness ==
    /\ ret.op = "register_user"
    /\ ret.status = "False"
    /\ UsernameRows(db, strip(ret.in.username)) = {}
    /\ \E r \in db.users : r.email = lower(strip(ret.in.email)) /\ r.email # ret.in.email

\* the defects that the claim C13 lists, of a username, password and email
Malformed(username, password, email) ==
    \/ Len(username) < MIN_USERNAME
    \/ Len(username) > MAX_USERNAME
    \/ \E i \in 1..Len(username) : username[i] \notin Lowers \cup Uppers \cup Digits \cup {"_"}
    \/ Len(password) < MIN_PASSWORD
    \/ ~MatchEmail(email)

\* C13 (as amended): register_user raises the validation error and inserts
\* no users row for every input whose username, after trimming, is shorter
\* than 3 or longer than 50 characters or contains a character other than
\* letters, digits and underscore, whose password is shorter than 8
\* characters, or whose email, after trimming and lower-casing, is not of
\* the shape local@domain.tld; this is not the False of a duplicate.
C13_RejectsMalformed ==
    [][ ( /\ ret'.op = "register_user"
          /\ Malformed(strip(ret'.in.username), ret'.in.password,
                       lower(strip(ret'.in.email))) )
        => /\ ret'.status = "ValueError"
           /\ ret'.status # "False"
           /\ db' = db ]_vars

\* C13, witness: a registration with a taken username and an email without
\* top-level domain has raised the validation error
C13_Witness ==
    /\ ret.op = "register_user"
    /\ ret.status = "ValueError"
    /\ ~MatchEmail(lower(strip(ret.in.email)))
    /\ MatchUsername(strip(ret.in.username))
    /\ Len(ret.in.password) >= MIN_PASSWORD
    /\ UsernameRows(db, strip(ret.in.username)) # {}

\* C13 (as stated): the same, of the username and the email as they are
\* passed to register_user.
C13_Original ==
    [][ ( /\ ret'.op = "register_user"
          /\ Malformed(ret'.in.username, ret'.in.password, ret'.in.email) )
        => /\ ret'.status = "ValueError"
           /\ db' = db ]_vars

\* what the caller of authenticate_user gets: the outcome and the row
Outcome(r) == [status |-> r.status, rows |-> r.rows, df |-> r.df, total |-> r.total]

\* C14: authenticate_user gives the caller the same result, None and no
\* exception, for a username that is not registered as for a registered
\* username with a wrong password.
C14_NoEnumeration ==
    ret.op = "authenticate_user" =>
        LET known == UsernameRows(db, strip(ret.in.username)) IN
        ( \/ known = {}
          \/ \A r \in known : ret.in.password # RegisteredPassword(r) )
        => Outcome(ret) = Outcome([NoRet EXCEPT !.status = "None"])

\* C14, witness: with two users registered, a login with a username that is
\* not registered and the password of a registered user has returned None
C14_Witness ==
    /\ ret.op = "authenticate_user"
    /\ ret.status = "None"
    /\ UsernameRows(db, strip(ret.in.username)) = {}
    /\ Cardinality(db.users) = MaxUsers
    /\ \E r \in db.users : RegisteredPassword(r) = ret.in.password

\* exactly YYYY-MM-DD HH:MM:SS: nineteen characters, digits and separators
ExactTimestamp(s) ==
    /\ Len(s) = 19
    /\ \A i \in 1..19 :
          IF i \in {5, 8} THEN s[i] = "-"
          ELSE IF i = 11 THEN s[i] = " "
          ELSE IF i \in {14, 17} THEN s[i] = ":"
          ELSE s[i] \in Digits

\* the inputs that the claim C15 says save_prediction refuses
BadPrediction(in) ==
    \/ ~(in.user_id.ty = "int" /\ in.user_id.num > 0)
    \/ in.prediction_type = <<>>
    \/ ~(IsNumber(in.probability) /\ 0 <= in.probability.num
                                  /\ in.probability.num <= 100 * Scale)
    \/ \A i \in 1..Len(in.outcome) : in.outcome[i] \in Whitespace
    \/ ~ExactTimestamp(in.timestamp)

\* C15 (as stated): save_prediction raises an error and inserts no row when
\* user_id is not a positive integer, prediction_type is empty, probability
\* is outside [0, 100], outcome is empty or blank, or timestamp is not
\* exactly YYYY-MM-DD HH:MM:SS; for every other input it inserts exactly
\* one row.
C15_Validation ==
    [][ ret'.op = "save_prediction" =>
          IF BadPrediction(ret'.in)
          THEN /\ ret'.status \in {"ValueError", "OperationalError"}
               /\ db'.predictions = db.predictions
          ELSE /\ ret'.status = "ok"
               /\ db.predictions \subseteq db'.predictions
               /\ Cardinality(db'.predictions \ db.predictions) = 1 ]_vars

\* get_reset_token would return the row r at the time clock
Retrievable(d, r, clock) == r \in SelectResetToken(d, r.token, clock)

\* cleanup_expired_tokens would delete the row r at the time clock
Eligible(d, r, clock) == r \notin DeleteExpired(d, clock).password_resets

\* C16: a cleanup_expired_tokens call that returns removes exactly the
\* password_resets rows that get_reset_token rejects as expired, keeps every
\* row that is still valid and changes no other table; at any time every
\* row is either retrievable by get_reset_token or eligible for cleanup,
\* never both and never neither.
C16_Cleanup ==
    [][ /\ \A r \in db'.password_resets :
              Retrievable(db', r, now') # Eligible(db', r, now')
        /\ (ret'.op = "cleanup_expired_tokens" /\ ret'.status = "ok") =>
              /\ db'.password_resets = { r \in db.password_resets : Retrievable(db, r, now) }
              /\ db' = [db EXCEPT !.password_resets = db'.password_resets] ]_vars

\* C16, witness: a cleanup has removed the expired token of one user and
\* kept the token of the other, which is still valid
C16_Witness ==
    /\ ret.op = "cleanup_expired_tokens"
    /\ ret.status = "ok"
    /\ \E r \in db.password_resets : Retrievable(db, r, now)
    /\ \E k \in DOMAIN issued :
          /\ issued[k].done
          /\ now >= issued[k].at + HOUR * TicksPerSec
          /\ \A r \in db.password_resets : r.user_id # issued[k].user_id
          /\ \A k2 \in DOMAIN issued : k2 > k => issued[k2].user_id # issued[k].user_id

WriteOperations ==
    { "register_user", "save_prediction", "save_patient_data", "create_reset_token",
      "delete_user" }

Errors == { "ValueError", "OperationalError", "IntegrityError", "OSError" }

\* C18 (as stated): when a write operation raises an error to its caller,
\* the step that raises changes nothing and the call has committed no
\* change before it: the database content is what it was before the call.
C18_NoPartialWrites ==
    [][ (ret'.op \in WriteOperations /\ ret'.status \in Errors) =>
          /\ db' = db
          /\ \A t \in Threads : (pc[t] # "idle" /\ pc'[t] = "idle") => ~arg[t].wrote ]_vars

\* every user_id of a dependent row is the id of a users row
Referenced(d) ==
    \A r \in d.patients \cup d.predictions \cup d.password_resets :
        \E u \in d.users : u.id = r.user_id

\* C11 (as stated): in every reachable state every row of patients,
\* predictions and password_resets has the user_id of an existing users
\* row.
C11_ReferentialIntegrity == Referenced(db)

\* C17 (as stated): a run of any page for a session whose last_activity is
\* more than 30 minutes old leaves the session logged out (logged_in False,
\* user_id None) and shows nothing that is reserved for users who are
\* logged in.
C17_ExpiryOnEveryPage ==
    [][ (run'.name # "" /\ Expired(session[run'.s]))
        => /\ ~session'[run'.s].logged_in
           /\ session'[run'.s].user_id = 0
           /\ ~run'.content ]_vars

\* C19: whenever a run of an analysis page reaches save_prediction or
\* save_patient_data, the session of the run is logged in and the user_id
\* passed to the call is the integer user_id of that session.
C19_SavesOnlyLoggedIn ==
    [][ (run'.name # "" /\ ret'.op \in {"save_prediction", "save_patient_data"})
        => /\ session[run'.s].logged_in
           /\ ret'.in.user_id = PyInt(session[run'.s].user_id) ]_vars

\* a logged-in session has saved a patients row from the diabetes page
C19_Witness ==
    /\ run.name = "pages/diabetes.py"
    /\ ret.op = "save_patient_data"
    /\ ret.status = "ok"
    /\ session[run.s].logged_in
    /\ \E r \in db.patients : r.user_id = session[run.s].user_id

\* C21 (as stated): a run of the home page for a user with N > 0 records
\* that asks for a page after the last one displays the records of the
\* last page, and whenever the label "Showing a-b of N" is displayed it
\* counts the rows displayed and the records of the user.
C21_PageClamp ==
    (run.name = "app.py" /\ ret.op = "cached_patient_history") =>
        LET rows == PatientsOf(db, ret.in.user_id)
            n == Cardinality(rows)
            size == ret.in.page_size
            last == Ceil(n, size)
        IN /\ (n > 0 /\ ret.in.page > last) =>
                 \E all \in OrderByTimestampDesc(rows) :
                    run.view.shown = SubSeq(all, (last - 1) * size + 1, n)
           /\ run.view.label # <<>> =>
                 /\ run.view.label[3] = n
                 /\ run.view.label[2] - run.view.label[1] + 1 = Len(run.view.shown)

\* the session is inside the window of a lockout
LockedOut(sess) ==
    /\ sess.locked_at # <<>>
    /\ (now - sess.locked_at[1]) <= ATTEMPT_WINDOW * TicksPerSec

\* C22 (as stated): no login submission on the login page reaches
\* authenticate_user within 5 minutes of the failed attempt that brought
\* the session to 3 failed attempts; a run of the login page more than 5
\* minutes after the last failed attempt leaves login_attempts at 0 unless
\* a new attempt fails in it; login_attempts never exceeds 3.
C22_RateLimit ==
    [][ /\ (run'.name = "pages/login.py" /\ ret'.op = "authenticate_user")
            => ~LockedOut(session[run'.s])
        /\ (/\ run'.name = "pages/login.py"
            /\ run'.forms
            /\ session[run'.s].last_attempt_time # <<>>
            /\ (now - session[run'.s].last_attempt_time[1]) > ATTEMPT_WINDOW * TicksPerSec
            /\ ret'.op # "authenticate_user")
            => session'[run'.s].login_attempts = 0
        /\ \A s \in Sessions : session'[s].login_attempts <= MAX_ATTEMPTS ]_vars

\* C28 (as stated): no form of the application calls authenticate_user for
\* a session whose login_attempts is 3 or more and whose last failed
\* attempt is at most 5 minutes old.
C28_NoBypass ==
    [][ (run'.name # "" /\ ret'.op = "authenticate_user")
        => ~(/\ session[run'.s].login_attempts >= MAX_ATTEMPTS
             /\ session[run'.s].last_attempt_time # <<>>
             /\ (now - session[run'.s].last_attempt_time[1])
                    <= ATTEMPT_WINDOW * TicksPerSec) ]_vars

\* C26 (as stated): every run of the login page for a session that is
\* logged out when the page chooses between the logout button and the
\* forms finds the keys it reads and renders the forms.
C26_FormsRendered ==
    [][ (/\ run'.name = "pages/login.py"
         /\ ~CheckTimeout(LoginInit(session[run'.s])).logged_in)
        => run'.forms ]_vars

\* the theme column of the users row of the session
StoredTheme(d, sess) == { u.theme : u \in { r \in d.users : r.id = sess.user_id } }

\* C23 (as stated): every step that changes the theme of a session that is
\* logged in leaves that theme in users.theme of its user, and in every
\* state the theme of a session that is logged in is the stored one.
C23_ThemeStored ==
    [][ \A s \in Sessions :
          /\ (session[s].logged_in /\ session'[s].logged_in
                 /\ session'[s].theme # session[s].theme)
              => StoredTheme(db', session'[s]) = {session'[s].theme}
          /\ session'[s].logged_in
              => StoredTheme(db', session'[s]) = {session'[s].theme} ]_vars

\* every field of the form is an option of its select box or a number that
\* the CHECK constraint of its column allows
InRanges(form) ==
    /\ \A f \in TextFields \ {"sex"} : form[f] \in {"Yes", "No"}
    /\ form["sex"] \in {"Female", "Male"}
    /\ \A f \in NumberFields :
          /\ ColumnLow(f) * Scale <= form[f].num
          /\ form[f].num <= ColumnHigh(f) * Scale

\* C25 (as stated): a submission of the diabetes form by a logged-in user
\* whose fields are all inside the ranges of the patients table is not
\* answered with "Please fill all fields." and goes on to save_prediction.
C25_FormAccepted ==
    (/\ run.name = "pages/diabetes.py"
     /\ run.content
     /\ run.form # <<>>
     /\ InRanges(run.form))
    => /\ "Please fill all fields." \notin run.msgs
       /\ ret.op = "save_prediction"

\* C24 (as stated): every run of an analysis page that has completed its
\* inference and reaches save_prediction adds exactly one predictions row,
\* with the user_id of the session, the prediction_type and the outcome of
\* the run and a probability from 0 to 100, and the save_patient_data of a
\* diabetes analysis adds exactly one patients row of that user.
C24_AnalysisSaved ==
    [][ /\ (run'.name # "" /\ ret'.op = "save_prediction")
            => \E r \in db'.predictions \ db.predictions :
                  /\ db'.predictions = db.predictions \cup {r}
                  /\ r.user_id = session[run'.s].user_id
                  /\ r.prediction_type = ret'.in.prediction_type
                  /\ r.outcome = ret'.in.outcome
                  /\ 0 <= r.probability.num
                  /\ r.probability.num <= 100 * Scale
        /\ (run'.name # "" /\ ret'.op = "save_patient_data")
            => \E r \in db'.patients \ db.patients :
                  /\ db'.patients = db.patients \cup {r}
                  /\ r.user_id = session[run'.s].user_id ]_vars

\* the account that the session was last logged in to is gone and the
\* session is logged out
AccountDeleted(s) ==
    /\ ~session[s].logged_in
    /\ \A u \in db.users : u.id # session[s].auth_id

\* C30 (as stated): delete_user returns only in a run that the click on
\* "Confirm Account Deletion" has started, for the user_id of that session,
\* and a logged-in session that has pressed "Delete Account" and then
\* "Confirm Account Deletion" eventually has its account deleted and is
\* logged out.
C30_DeletionCompletes ==
    /\ [][ ret'.op = "delete_user"
             => /\ run'.widget = "confirm_delete"
                /\ ret'.in.user_id = session[run'.s].user_id ]_vars
    /\ \A s \in LoginSessions :
          (run.widget = "confirm_delete" /\ run.s = s /\ session[s].logged_in)
              ~> AccountDeleted(s)

C29_NeverStale ==
    (run.name = "app.py" /\ ret.op = "cached_patient_history") =>
        LET rows == PatientsOf(db, ret.in.user_id) IN
        /\ ret.total = Cardinality(rows)
        /\ \E all \in OrderByTimestampDesc(rows) :
              ret.df = LimitOffset(all, ret.in.page_size,
                                   (ret.in.page - 1) * ret.in.page_size)

====
